---- MODULE Spec2Model ----
(***************************************************************************)
(* careerHQ: the taxonomy-driven measurement model (occupation_class.py),  *)
(* the schema construction and the rating ingestion / population engine    *)
(* (occupation_populate.py and the occupation_initialize_* loaders).       *)
(*                                                                         *)
(* Representation.                                                         *)
(*  - A Python str is a sequence of one-character strings, so that         *)
(*    strip(), lower(), startswith(), split(), float() and int() are       *)
(*    computed character by character.                                     *)
(*  - A Python number is an integer count of hundredths (4.62 is 462);     *)
(*    float('inf') is the value Infinity.                                  *)
(*  - Optional[T] is a sequence of length at most one: None is << >>.      *)
(*  - ElementScale objects are mutable and have identity: they live in     *)
(*    `heap`, and dictionaries of scales hold their addresses.             *)
(*  - A dict is a function; a raised exception is recorded in `last`.      *)
(***************************************************************************)
EXTENDS Integers, Sequences, FiniteSets, TLC

VARIABLES
    data,          \* the reference files read by the loaders
    scale_defs,    \* job_initialize._SCALE_DEFINITIONS
    heap,          \* address -> ElementScale
    schema,        \* Some(OccupationSchema) once create_occupation_schema ran
    occupations,   \* Dict[str, Occupation]
    file_idx,      \* position in RATING_FILE_CONFIGS (populate_all_occupations)
    ratings,       \* parse_rating_file's local dict for the current file
    all_ratings,   \* populate_all_occupations' merged dict
    rows_read,     \* number of rating rows consumed so far
    stats,         \* Some(PopulationStats) returned by the last population
    calls,         \* number of value-assigning calls made so far
    last,          \* the last call: its name, arguments and outcome
    pc,            \* phase of the run
    elements,      \* Some(Dict[str, Element]) once load_elements ran
    loaded,        \* the family loaders that ran over `elements`
    registry,      \* Some(OrganizationRegistry) once it was built
    user,          \* the User: attributes by id and jobs, most recent first
    run            \* Some(population run in progress): rating map, workers, counters

loaderVars == <<elements, loaded, registry>>

serviceVars == <<user, run>>

vars == <<data, scale_defs, heap, schema, occupations, file_idx, ratings,
          all_ratings, rows_read, stats, calls, last, pc, loaderVars, serviceVars>>

----------------------------------------------------------------------------
(* Optional values *)

None == << >>
Some(x) == << x >>
Get(o) == o[1]

(* Finite-map helpers *)
Range(f) == { f[x] : x \in DOMAIN f }
EmptyMap == [x \in {} |-> x]
Put(f, k, v) == [x \in (DOMAIN f) \cup {k} |-> IF x = k THEN v ELSE f[x]]
Update(f, g) == [x \in (DOMAIN f) \cup (DOMAIN g) |-> IF x \in DOMAIN g THEN g[x] ELSE f[x]]

RECURSIVE SetToSeq(_)
SetToSeq(S) == IF S = {} THEN << >>
               ELSE LET x == CHOOSE y \in S : TRUE IN << x >> \o SetToSeq(S \ {x})

----------------------------------------------------------------------------
(* Strings *)

Digits == <<"0", "1", "2", "3", "4", "5", "6", "7", "8", "9">>
IsSpace(c) == c \in {" ", "\t"}

UpperCase == <<"A", "F", "I", "N">>
Lower(s) ==
    LET LowerCase == <<"a", "f", "i", "n">>
    IN [i \in 1..Len(s) |->
          IF \E k \in 1..Len(UpperCase) : UpperCase[k] = s[i]
          THEN LowerCase[CHOOSE k \in 1..Len(UpperCase) : UpperCase[k] = s[i]]
          ELSE s[i]]

RECURSIVE LStrip(_)
LStrip(s) == IF s # << >> /\ IsSpace(Head(s)) THEN LStrip(Tail(s)) ELSE s
RECURSIVE RStrip(_)
RStrip(s) == IF s # << >> /\ IsSpace(s[Len(s)]) THEN RStrip(SubSeq(s, 1, Len(s) - 1)) ELSE s
Strip(s) == RStrip(LStrip(s))

StartsWith(s, p) == Len(p) <= Len(s) /\ SubSeq(s, 1, Len(p)) = p

AllDigits(s) == s # << >> /\ \A i \in 1..Len(s) : \E k \in 1..10 : Digits[k] = s[i]
RECURSIVE DigitsVal(_)
DigitsVal(s) == IF s = << >> THEN 0
                ELSE 10 * DigitsVal(SubSeq(s, 1, Len(s) - 1))
                       + ((CHOOSE k \in 1..10 : Digits[k] = s[Len(s)]) - 1)

Infinity == 1000000000

(* int(str): Some(n), or None where Python raises ValueError. *)
ParseInt(str) ==
    LET s == Strip(str)
        neg == s # << >> /\ Head(s) = "-"
        body == IF s # << >> /\ Head(s) \in {"-", "+"} THEN Tail(s) ELSE s
    IN IF AllDigits(body)
       THEN Some(IF neg THEN 0 - DigitsVal(body) ELSE DigitsVal(body))
       ELSE None

(* float(str), in hundredths: Some(v), or None where Python raises          *)
(* ValueError.  Decimal literals with at most two fractional digits, and    *)
(* the words inf / infinity (any case).  Exponents, underscores and the    *)
(* word nan are not in the alphabet of the sampled files.                   *)
DotAt(s) == IF \E i \in 1..Len(s) : s[i] = "."
            THEN CHOOSE i \in 1..Len(s) : s[i] = "." /\ \A j \in 1..(i - 1) : s[j] # "."
            ELSE 0
ParseFloat(str) ==
    LET s == Strip(str)
        neg == s # << >> /\ Head(s) = "-"
        body == IF s # << >> /\ Head(s) \in {"-", "+"} THEN Tail(s) ELSE s
        d == DotAt(body)
        ip == IF d = 0 THEN body ELSE SubSeq(body, 1, d - 1)
        fp == IF d = 0 THEN << >> ELSE SubSeq(body, d + 1, Len(body))
        okI == ip = << >> \/ AllDigits(ip)
        okF == fp = << >> \/ (AllDigits(fp) /\ Len(fp) <= 2)
        frac == IF fp = << >> THEN 0
                ELSE IF Len(fp) = 1 THEN 10 * DigitsVal(fp) ELSE DigitsVal(fp)
        mag == 100 * DigitsVal(ip) + frac
    IN IF Lower(body) \in {<<"i", "n", "f">>, <<"i", "n", "f", "i", "n", "i", "t", "y">>}
       THEN Some(IF neg THEN 0 - Infinity ELSE Infinity)
       ELSE IF okI /\ okF /\ (ip # << >> \/ fp # << >>)
       THEN Some(IF neg THEN 0 - mag ELSE mag)
       ELSE None

IsInf(v) == v = Infinity \/ v = 0 - Infinity
(* int(v): truncation toward zero *)
IntOf(v) == IF v >= 0 THEN v \div 100 ELSE 0 - ((0 - v) \div 100)

----------------------------------------------------------------------------
(* occupation_class.py *)

ORDINAL == "ordinal"
INTERVAL == "interval"

ScaleDefinition(id, lo, hi, type) ==
    [scale_id |-> id, min_value |-> lo, max_value |-> hi, scale_type |-> type]

(* categories: the keys of the Dict[int, str]; the labels are inert text. *)
OrdinalSemantics(keys) == [categories |-> keys]
IntervalSemantics(text) == [meaning |-> text]

ElementScale(def, val, ord, int) ==
    [scale_def |-> def, value |-> val, distribution |-> None,
     ordinal_semantics |-> ord, interval_semantics |-> int]

(* ElementScale.validate: "ok", or the exception it raises. *)
validate(es) ==
    IF es.scale_def.scale_type = ORDINAL
    THEN IF es.ordinal_semantics = None THEN "ValueError"
         ELSE IF es.interval_semantics # None THEN "ValueError"
         ELSE IF es.value # None /\ IsInf(Get(es.value)) THEN "OverflowError"
         ELSE IF es.value # None /\ Get(es.value) % 100 # 0 THEN "ValueError"
         ELSE IF es.value # None
                 /\ IntOf(Get(es.value)) \notin Get(es.ordinal_semantics).categories
              THEN "ValueError"
         ELSE "ok"
    ELSE IF es.scale_def.scale_type = INTERVAL
    THEN IF es.interval_semantics = None THEN "ValueError"
         ELSE IF es.ordinal_semantics # None THEN "ValueError"
         ELSE "ok"
    ELSE "ok"

(* Element / ElementTemplate: scales maps a scale id to the address of its *)
(* ElementScale object.                                                     *)
Element(id, scales) == [element_id |-> id, scales |-> scales]

(* Fresh addresses for the scale ids S, above every address in use. *)
Alloc(h, S) ==
    LET order == SetToSeq(S)
    IN [s \in S |-> Len(h) + (CHOOSE i \in 1..Len(order) : order[i] = s)]

(* ElementTemplate.instantiate: a new ElementScale per scale of the         *)
(* template, with the template's scale_def and semantics and no value.      *)
(* Returns the new element and the heap holding its objects.                *)
InstantiateScale_KeepValue(es) == es

InstantiateScale(es) ==
    ElementScale(es.scale_def, None, es.ordinal_semantics, es.interval_semantics)

instantiate_NoScales(h, tmpl) ==
    [element |-> Element(tmpl.element_id, EmptyMap), heap |-> h]

instantiate_Shared(h, tmpl) ==
    [element |-> Element(tmpl.element_id, tmpl.scales), heap |-> h]

instantiate(h, tmpl) ==
    LET addr == Alloc(h, DOMAIN tmpl.scales)
        order == SetToSeq(DOMAIN tmpl.scales)
        cells == [i \in 1..Len(order) |-> InstantiateScale(h[tmpl.scales[order[i]]])]
    IN [element |-> Element(tmpl.element_id, addr), heap |-> h \o cells]

(* OccupationSchema.instantiate_elements *)
RECURSIVE instantiate_seq(_, _, _)
instantiate_seq(h, sch, eids) ==
    IF eids = << >> THEN [elements |-> EmptyMap, heap |-> h]
    ELSE LET one == instantiate(h, sch.elements[Head(eids)])
             rest == instantiate_seq(one.heap, sch, Tail(eids))
         IN [elements |-> Put(rest.elements, Head(eids), one.element),
             heap |-> rest.heap]

instantiate_elements(h, sch) == instantiate_seq(h, sch, SetToSeq(DOMAIN sch.elements))

(* Occupation.from_schema *)
from_schema(h, occupation_id, sch) ==
    LET inst == instantiate_elements(h, sch)
    IN [occupation |-> [occupation_id |-> occupation_id, elements |-> inst.elements],
        heap |-> inst.heap]

----------------------------------------------------------------------------
(* Scale ids *)

IM == <<"I", "M">>
LV == <<"L", "V">>
OI == <<"O", "I">>
EX == <<"E", "X">>
WI == <<"W", "I">>
DR == <<"D", "R">>
RL == <<"R", "L">>
RW == <<"R", "W">>
PT == <<"P", "T">>
OJ == <<"O", "J">>

(* str(n) for an integer n *)
RECURSIVE NatToStr(_)
NatToStr(n) == IF n < 10 THEN << Digits[n + 1] >>
               ELSE NatToStr(n \div 10) \o << Digits[(n % 10) + 1] >>
IntToStr(n) == IF n < 0 THEN <<"-">> \o NatToStr(0 - n) ELSE NatToStr(n)

(* s.split(".") and ".".join(parts) *)
RECURSIVE Split(_)
Split(s) == LET d == DotAt(s)
            IN IF d = 0 THEN << s >>
               ELSE << SubSeq(s, 1, d - 1) >> \o Split(SubSeq(s, d + 1, Len(s)))
RECURSIVE Join(_)
Join(parts) == IF parts = << >> THEN << >>
               ELSE IF Len(parts) = 1 THEN parts[1]
               ELSE parts[1] \o <<".">> \o Join(Tail(parts))

(* {".".join(parts[:i]) for i in range(1, len(parts))} *)
Prefixes(id) == LET parts == Split(id)
                IN { Join(SubSeq(parts, 1, i)) : i \in 1..(Len(parts) - 1) }

compute_organizations_KeepEmptySegments(element_id) ==
    LET parts == Split(element_id)
    IN IF Len(parts) <= 1 THEN << >>
       ELSE [i \in 1..(Len(parts) - 1) |-> Join(SubSeq(parts, 1, i))]

(* Element._compute_organizations, run by __post_init__ *)
compute_organizations(element_id) ==
    LET parts == SelectSeq(Split(element_id), LAMBDA p : p # << >>)
    IN IF Len(parts) <= 1 THEN << >>
       ELSE [i \in 1..(Len(parts) - 1) |-> Join(SubSeq(parts, 1, i))]

----------------------------------------------------------------------------
(* job_initialize.py (imported as occupation_initialize) *)

(* The index of the last row of `good` whose id is `id`: a later            *)
(* assignment to the same dict key wins.                                    *)
LastRowOf(rows, good, id) ==
    CHOOSE i \in good :
        /\ Strip(rows[i][1]) = id
        /\ \A j \in good : Strip(rows[j][1]) = id => j <= i

load_organization_registry_PrefixesOnly(rows) ==
    LET good == { i \in 1..Len(rows) :
                    /\ Len(rows[i]) >= 3
                    /\ Strip(rows[i][1]) # << >>
                    /\ Strip(rows[i][2]) # << >> }
        all_element_ids == { Strip(rows[i][1]) : i \in good }
        org_node_ids == UNION { Prefixes(id) : id \in all_element_ids }
    IN [org_id \in org_node_ids \cap all_element_ids |->
            LET name == Strip(rows[LastRowOf(rows, good, org_id)][2])
                desc == Strip(rows[LastRowOf(rows, good, org_id)][3])
            IN [org_id |-> org_id, name |-> name,
                description |-> IF name # desc THEN Some(desc) ELSE None]]

(* load_organization_registry: the nodes dict of the registry *)
load_organization_registry(rows) ==
    LET good == { i \in 1..Len(rows) :
                    /\ Len(rows[i]) >= 3
                    /\ Strip(rows[i][1]) # << >>
                    /\ Strip(rows[i][2]) # << >> }
        all_element_ids == { Strip(rows[i][1]) : i \in good }
        name_of(id) == Strip(rows[LastRowOf(rows, good, id)][2])
        desc_of(id) == Strip(rows[LastRowOf(rows, good, id)][3])
        org_node_ids ==
            UNION { Prefixes(id) : id \in all_element_ids }
              \cup { id \in all_element_ids :
                        \/ name_of(id) = desc_of(id)
                        \/ (desc_of(id) # << >> /\ StartsWith(desc_of(id), name_of(id))) }
    IN [org_id \in org_node_ids \cap all_element_ids |->
            [org_id |-> org_id, name |-> name_of(org_id),
             description |-> IF name_of(org_id) # desc_of(org_id)
                             THEN Some(desc_of(org_id)) ELSE None]]

(* OrganizationRegistry.get: the node, or the KeyError it raises *)
registry_get(nodes, org_id) ==
    IF org_id \notin DOMAIN nodes
    THEN [outcome |-> "KeyError", node |-> None]
    ELSE [outcome |-> "ok", node |-> Some(nodes[org_id])]

load_elements_AllIds(rows) ==
    LET good == { i \in 1..Len(rows) :
                    /\ Len(rows[i]) >= 2
                    /\ Strip(rows[i][1]) # << >>
                    /\ Strip(rows[i][2]) # << >> }
    IN [id \in { Strip(rows[i][1]) : i \in good } |-> EmptyMap]

(* load_elements: the leaf ids of the hierarchy table, each an Element      *)
(* without scales.  Returns element id -> (scale id -> ElementScale).       *)
load_elements(rows) ==
    LET good == { i \in 1..Len(rows) :
                    /\ Len(rows[i]) >= 2
                    /\ Strip(rows[i][1]) # << >>
                    /\ Strip(rows[i][2]) # << >> }
        all_ids == { Strip(rows[i][1]) : i \in good }
        parent_ids == UNION { Prefixes(id) : id \in all_ids }
        leaf_ids == all_ids \ parent_ids
    IN [id \in leaf_ids |-> EmptyMap]

(* The body of load_scale_definitions' loop for one row of length >= 4 *)
ScaleDefinitionOfRow(row) ==
    LET scale_id == Strip(row[1])
        min_str == Strip(row[3])
        max_str == Strip(row[4])
        min_value == IF min_str # << >> /\ ParseFloat(min_str) # None
                     THEN Get(ParseFloat(min_str)) ELSE 0
        max_value == IF max_str # << >> /\ ParseFloat(max_str) # None
                     THEN Get(ParseFloat(max_str)) ELSE 10000
        distribution_scale_ids == {<<"C", "T", "P">>, <<"C", "X", "P">>, <<"F", "T">>,
                                   OJ, PT, RL, RW, <<"R", "T">>}
        is_distribution == max_value = 10000 /\ scale_id \in distribution_scale_ids
    IN ScaleDefinition(scale_id, min_value, max_value,
                       IF is_distribution THEN ORDINAL ELSE INTERVAL)

RECURSIVE load_scale_definitions(_)
load_scale_definitions(rows) ==
    IF rows = << >> THEN EmptyMap
    ELSE LET n == Len(rows)
             before == load_scale_definitions(SubSeq(rows, 1, n - 1))
         IN IF Len(rows[n]) < 4 THEN before
            ELSE Put(before, Strip(rows[n][1]), ScaleDefinitionOfRow(rows[n]))

----------------------------------------------------------------------------
(* The per-scale JSON schema files *)

IM_SCHEMA == [scale_id |-> IM, min_value |-> 100, max_value |-> 500,
              categories |-> {<<"1">>, <<"2">>, <<"3">>, <<"4">>, <<"5">>}]
OI_SCHEMA == [scale_id |-> OI, min_value |-> 100, max_value |-> 700,
              meaning |-> <<"occupational interest">>]
EX_SCHEMA == [scale_id |-> EX, min_value |-> 100, max_value |-> 700,
              meaning |-> <<"extent">>]

(* {int(k): v for k, v in data["categories"].items()} *)
CategoryKeys(json) == { Get(ParseInt(k)) : k \in json.categories }

(* load_im_scale_schema / load_dr_scale_schema *)
load_ordinal_schema(json) ==
    [scale_def |-> ScaleDefinition(json.scale_id, json.min_value, json.max_value, ORDINAL),
     semantics |-> OrdinalSemantics(CategoryKeys(json))]

(* load_oi_scale_schema / load_ex_scale_schema / load_wi_scale_schema *)
load_interval_schema(json) ==
    [scale_def |-> ScaleDefinition(json.scale_id, json.min_value, json.max_value, INTERVAL),
     semantics |-> IntervalSemantics(json.meaning)]

load_category_scale_schema_ZeroBased(json) ==
    [c \in CategoryKeys(json) |->
        [scale_def |-> ScaleDefinition(json.scale_id_prefix \o <<"-">> \o IntToStr(c - 1),
                                       json.min_value, json.max_value, INTERVAL),
         semantics |-> IntervalSemantics(<<json.meaning_template>> \o IntToStr(c))]]

(* load_category_scale_schema: category int -> (ScaleDefinition, semantics) *)
load_category_scale_schema(json) ==
    [c \in CategoryKeys(json) |->
        [scale_def |-> ScaleDefinition(json.scale_id_prefix \o <<"-">> \o IntToStr(c),
                                       json.min_value, json.max_value, INTERVAL),
         semantics |-> IntervalSemantics(<<json.meaning_template>> \o IntToStr(c))]]

(* load_element_scale_mapping*: element id -> scale ids, from rows          *)
(* [element_id, element_name, scale_id, ...].  skip_empty is the 2D3A       *)
(* variant, which drops rows with an empty element or scale id.             *)
load_element_scale_mapping(rows, skip_empty) ==
    LET good == { i \in 1..Len(rows) :
                    /\ Len(rows[i]) >= 3
                    /\ skip_empty => (Strip(rows[i][1]) # << >> /\ Strip(rows[i][3]) # << >>) }
        ids == { Strip(rows[i][1]) : i \in good }
    IN [e \in ids |-> { Strip(rows[i][3]) : i \in { j \in good : Strip(rows[j][1]) = e } }]

(* load_lv_anchors / load_lv_anchors_2abc: element id -> OrdinalSemantics,  *)
(* from rows [element_id, element_name, scale_id, anchor_value, text] whose *)
(* element id starts with one of the family's prefixes.                     *)
load_lv_anchors(rows, family) ==
    LET good == { i \in 1..Len(rows) :
                    /\ Len(rows[i]) >= 5
                    /\ Strip(rows[i][3]) = LV
                    /\ \E p \in family : StartsWith(Strip(rows[i][1]), p)
                    /\ ParseInt(Strip(rows[i][4])) # None }
        ids == { Strip(rows[i][1]) : i \in good }
    IN [e \in ids |-> OrdinalSemantics(
            { Get(ParseInt(Strip(rows[i][4]))) : i \in { j \in good : Strip(rows[j][1]) = e } })]

----------------------------------------------------------------------------
(* The family loaders.  els maps an element id to its scales dict, each     *)
(* entry a newly constructed ElementScale.                                  *)

NewScale(def, ord, int) == ElementScale(def, None, ord, int)

(* The IM / LV loop shared by populate_1a_element_scales and                *)
(* populate_2abc_element_scales; lv_scale_def = scale_defs.get("LV"), or    *)
(* the default definition.                                                  *)
AttachImLv(els, mapping, lv_anchors, sdefs) ==
    LET im == load_ordinal_schema(IM_SCHEMA)
        lv_scale_def == IF LV \in DOMAIN sdefs THEN sdefs[LV]
                        ELSE ScaleDefinition(LV, 0, 700, ORDINAL)
        attached(e) ==
            Update(IF IM \in mapping[e]
                   THEN IM :> NewScale(im.scale_def, Some(im.semantics), None)
                   ELSE EmptyMap,
                   IF LV \in mapping[e] /\ e \in DOMAIN lv_anchors
                   THEN LV :> NewScale(lv_scale_def, Some(lv_anchors[e]), None)
                   ELSE EmptyMap)
    IN [e \in DOMAIN els |->
          IF e \in DOMAIN mapping THEN Update(els[e], attached(e)) ELSE els[e]]

populate_1a_element_scales(els, d, sdefs) ==
    AttachImLv(els, load_element_scale_mapping(d.mapping_1a, FALSE),
               load_lv_anchors(d.anchors, { <<"1", ".", "A">> }), sdefs)

populate_2abc_element_scales(els, d, sdefs) ==
    AttachImLv(els, load_element_scale_mapping(d.mapping_2abc, FALSE),
               load_lv_anchors(d.anchors, { <<"2", ".", "A">>, <<"2", ".", "B">>,
                                            <<"2", ".", "C">> }), sdefs)

populate_1b_element_scales_Replacing(els, d) ==
    LET oi == load_interval_schema(OI_SCHEMA)
        ex == load_interval_schema(EX_SCHEMA)
        mapping == load_element_scale_mapping(d.mapping_1b, FALSE)
        attached(e) ==
            Update(IF OI \in mapping[e]
                   THEN OI :> NewScale(oi.scale_def, None, Some(oi.semantics))
                   ELSE EmptyMap,
                   IF EX \in mapping[e]
                   THEN EX :> NewScale(ex.scale_def, None, Some(ex.semantics))
                   ELSE EmptyMap)
    IN [e \in DOMAIN els |-> IF e \in DOMAIN mapping THEN attached(e) ELSE els[e]]

populate_1b_element_scales(els, d) ==
    LET oi == load_interval_schema(OI_SCHEMA)
        ex == load_interval_schema(EX_SCHEMA)
        mapping == load_element_scale_mapping(d.mapping_1b, FALSE)
        attached(e) ==
            Update(IF OI \in mapping[e]
                   THEN OI :> NewScale(oi.scale_def, None, Some(oi.semantics))
                   ELSE EmptyMap,
                   IF EX \in mapping[e]
                   THEN EX :> NewScale(ex.scale_def, None, Some(ex.semantics))
                   ELSE EmptyMap)
    IN [e \in DOMAIN els |->
          IF e \in DOMAIN mapping THEN Update(els[e], attached(e)) ELSE els[e]]

populate_1d_element_scales(els, d) ==
    LET wi == load_interval_schema([scale_id |-> WI, min_value |-> 0 - 300,
                                    max_value |-> 300, meaning |-> <<"impact">>])
        dr == load_ordinal_schema(
                  [scale_id |-> DR, min_value |-> 0, max_value |-> 1000,
                   categories |-> {<<"0">>, <<"1">>, <<"2">>, <<"3">>, <<"4">>, <<"5">>,
                                   <<"6">>, <<"7">>, <<"8">>, <<"9">>, <<"1", "0">>}])
        mapping == load_element_scale_mapping(d.mapping_1d, FALSE)
        attached(e) ==
            Update(IF WI \in mapping[e]
                   THEN WI :> NewScale(wi.scale_def, None, Some(wi.semantics))
                   ELSE EmptyMap,
                   IF DR \in mapping[e]
                   THEN DR :> NewScale(dr.scale_def, Some(dr.semantics), None)
                   ELSE EmptyMap)
    IN [e \in DOMAIN els |->
          IF e \in DOMAIN mapping THEN Update(els[e], attached(e)) ELSE els[e]]

CategoryPrefixes == {RL, RW, PT, OJ}

(* One ElementScale per category of a prefix's schema, keyed by             *)
(* scale_def.scale_id.                                                      *)
ExpandCategoryScales(json) ==
    LET scales == load_category_scale_schema(json)
        ids == { scales[c].scale_def.scale_id : c \in DOMAIN scales }
    IN [sid \in ids |->
          LET c == CHOOSE k \in DOMAIN scales : scales[k].scale_def.scale_id = sid
          IN NewScale(scales[c].scale_def, None, Some(scales[c].semantics))]

RECURSIVE UpdateAll(_, _)
UpdateAll(f, gs) == IF gs = << >> THEN f ELSE UpdateAll(Update(f, Head(gs)), Tail(gs))

populate_2d3a_element_scales(els, d) ==
    LET im == load_ordinal_schema(IM_SCHEMA)
        mapping == load_element_scale_mapping(d.mapping_2d3a, TRUE)
        attached(e) ==
            UpdateAll(IF IM \in mapping[e]
                      THEN IM :> NewScale(im.scale_def, Some(im.semantics), None)
                      ELSE EmptyMap,
                      SetToSeq({ ExpandCategoryScales(d.category_schema[p]) :
                                    p \in mapping[e] \cap CategoryPrefixes }))
    IN [e \in DOMAIN els |->
          IF e \in DOMAIN mapping THEN Update(els[e], attached(e)) ELSE els[e]]

----------------------------------------------------------------------------
(* occupation_populate.py: schema and empty occupations *)

(* The elements after all five loaders ran over the fresh leaf elements *)
LoadedElements(d, sdefs) ==
    populate_2d3a_element_scales(
      populate_2abc_element_scales(
        populate_1d_element_scales(
          populate_1b_element_scales(
            populate_1a_element_scales(load_elements(d.content_model), d, sdefs),
            d),
          d),
        d, sdefs),
      d)

(* Places the ElementScale objects of the elements eids in the heap and     *)
(* wraps each element in an ElementTemplate that holds the same objects.    *)
RECURSIVE TemplatesOf(_, _, _)
TemplatesOf(h, els, eids) ==
    IF eids = << >> THEN [templates |-> EmptyMap, heap |-> h]
    ELSE LET e == Head(eids)
             addr == Alloc(h, DOMAIN els[e])
             order == SetToSeq(DOMAIN els[e])
             cells == [i \in 1..Len(order) |-> els[e][order[i]]]
             rest == TemplatesOf(h \o cells, els, Tail(eids))
         IN [templates |-> Put(rest.templates, e, Element(e, addr)),
             heap |-> rest.heap]

SchemaOf_KeepEmpty(h, els) ==
    LET built == TemplatesOf(h, els, SetToSeq(DOMAIN els))
    IN [schema |-> [elements |-> built.templates], heap |-> built.heap]

(* The filter of create_occupation_schema: only the elements with at least  *)
(* one scale become templates.                                              *)
SchemaOf(h, els) ==
    LET kept == { e \in DOMAIN els : Cardinality(DOMAIN els[e]) > 0 }
        built == TemplatesOf(h, els, SetToSeq(kept))
    IN [schema |-> [elements |-> built.templates], heap |-> built.heap]

(* create_occupation_schema: fresh elements, the five loaders, the filter *)
create_occupation_schema(h, d, sdefs) == SchemaOf(h, LoadedElements(d, sdefs))

(* create_empty_occupations: one Occupation.from_schema per list entry; a   *)
(* repeated id replaces the earlier occupation.                             *)
RECURSIVE create_empty_occupations(_, _, _)
create_empty_occupations(h, occupation_list, sch) ==
    IF occupation_list = << >> THEN [occupations |-> EmptyMap, heap |-> h]
    ELSE LET n == Len(occupation_list)
             before == create_empty_occupations(h, SubSeq(occupation_list, 1, n - 1), sch)
             made == from_schema(before.heap, occupation_list[n], sch)
         IN [occupations |-> Put(before.occupations, occupation_list[n], made.occupation),
             heap |-> made.heap]

----------------------------------------------------------------------------
(* occupation_populate.py: rating files *)

RatingFileConfig(name, has_category, category_scales, value_index) ==
    [file_name |-> name, has_category_column |-> has_category,
     category_scales |-> category_scales, value_column_index |-> value_index]

RATING_FILE_CONFIGS ==
    << RatingFileConfig("Abilities.txt", FALSE, {}, 4),
       RatingFileConfig("Skills.txt", FALSE, {}, 4),
       RatingFileConfig("Knowledge.txt", FALSE, {}, 4),
       RatingFileConfig("Work Styles.txt", FALSE, {}, 4),
       RatingFileConfig("Interests.txt", FALSE, {}, 4),
       RatingFileConfig("Work Values.txt", FALSE, {}, 4),
       RatingFileConfig("Education, Training, and Experience.txt", TRUE,
                        {RL, RW, PT, OJ}, 5) >>

(* row[i] of the source is Col(row, i): Python indexes from 0. *)
Col(row, i) == row[i + 1]


EffectiveScaleId_AnyScale(config, row) ==
    IF config.has_category_column
    THEN Strip(Col(row, 3)) \o <<"-">> \o Strip(Col(row, 4))
    ELSE Strip(Col(row, 3))

(* The scale id under which a row that passed the length and id checks is   *)
(* stored.                                                                  *)
EffectiveScaleId(config, row) ==
    LET raw_scale_id == Strip(Col(row, 3))
    IN IF config.has_category_column /\ raw_scale_id \in config.category_scales
       THEN raw_scale_id \o <<"-">> \o Strip(Col(row, 4))
       ELSE raw_scale_id

ValueString(config, row) == Strip(Col(row, config.value_column_index))

parse_rating_row_KeepFirst(config, r, row) ==
    IF Len(row) < config.value_column_index + 1 THEN r
    ELSE IF Strip(Col(row, 0)) = << >> \/ Strip(Col(row, 1)) = << >>
            \/ Strip(Col(row, 3)) = << >> THEN r
    ELSE IF ValueString(config, row) = << >>
            \/ Lower(ValueString(config, row)) = <<"n", "/", "a">>
            \/ ParseFloat(ValueString(config, row)) = None THEN r
    ELSE IF <<Strip(Col(row, 0)), Strip(Col(row, 1)), EffectiveScaleId(config, row)>>
               \in DOMAIN r THEN r
    ELSE Put(r, <<Strip(Col(row, 0)), Strip(Col(row, 1)), EffectiveScaleId(config, row)>>,
             Get(ParseFloat(ValueString(config, row))))

parse_rating_row_ZeroForMissing(config, r, row) ==
    IF Len(row) < config.value_column_index + 1 THEN r
    ELSE IF Strip(Col(row, 0)) = << >> \/ Strip(Col(row, 1)) = << >>
            \/ Strip(Col(row, 3)) = << >> THEN r
    ELSE Put(r, <<Strip(Col(row, 0)), Strip(Col(row, 1)), EffectiveScaleId(config, row)>>,
             IF ParseFloat(ValueString(config, row)) = None THEN 0
             ELSE Get(ParseFloat(ValueString(config, row))))

(* The body of parse_rating_file's loop: the ratings dict after the row *)
parse_rating_row(config, r, row) ==
    IF Len(row) < config.value_column_index + 1 THEN r
    ELSE LET occupation_id == Strip(Col(row, 0))
             element_id == Strip(Col(row, 1))
             raw_scale_id == Strip(Col(row, 3))
             value_str == ValueString(config, row)
         IN IF occupation_id = << >> \/ element_id = << >> \/ raw_scale_id = << >> THEN r
            ELSE IF value_str = << >> \/ Lower(value_str) = <<"n", "/", "a">> THEN r
            ELSE IF ParseFloat(value_str) = None THEN r
            ELSE Put(r, <<occupation_id, element_id, EffectiveScaleId(config, row)>>,
                     Get(ParseFloat(value_str)))

----------------------------------------------------------------------------
(* occupation_populate.py: population *)

PopulationStats(n, total, populated, missing) ==
    [total_occupations |-> n, total_possible_scales |-> total,
     populated_scales |-> populated, missing_scales |-> missing]

(* The (occupation, element, scale) slots of a dict of occupations *)
Slots(occs) ==
    UNION { UNION { { <<o, e, s>> : s \in DOMAIN occs[o].elements[e].scales } :
                      e \in DOMAIN occs[o].elements } : o \in DOMAIN occs }

SlotAddr(occs, k) == occs[k[1]].elements[k[2]].scales[k[3]]

populate_slot_Validated(st, occs, r, key) ==
    IF key \in DOMAIN r
          /\ validate([st.heap[SlotAddr(occs, key)] EXCEPT !.value = Some(r[key])]) = "ok"
    THEN [heap |-> [st.heap EXCEPT ![SlotAddr(occs, key)].value = Some(r[key])],
          total |-> st.total + 1, populated |-> st.populated + 1, missing |-> st.missing]
    ELSE [heap |-> st.heap,
          total |-> st.total + 1, populated |-> st.populated, missing |-> st.missing + 1]

populate_slot_Truncating(st, occs, r, key) ==
    IF key \in DOMAIN r
    THEN [heap |-> [st.heap EXCEPT ![SlotAddr(occs, key)].value = Some(100 * IntOf(r[key]))],
          total |-> st.total + 1, populated |-> st.populated + 1, missing |-> st.missing]
    ELSE [heap |-> st.heap,
          total |-> st.total + 1, populated |-> st.populated, missing |-> st.missing + 1]

populate_slot_MissingUncounted(st, occs, r, key) ==
    IF key \in DOMAIN r
    THEN [heap |-> [st.heap EXCEPT ![SlotAddr(occs, key)].value = Some(r[key])],
          total |-> st.total + 1, populated |-> st.populated + 1, missing |-> st.missing]
    ELSE [heap |-> st.heap,
          total |-> st.total + 1, populated |-> st.populated, missing |-> st.missing]

(* The innermost loop body of populate_occupation_values for one slot: the  *)
(* heap and the counters after it.                                          *)
populate_slot(st, occs, r, key) ==
    IF key \in DOMAIN r
    THEN [heap |-> [st.heap EXCEPT ![SlotAddr(occs, key)].value = Some(r[key])],
          total |-> st.total + 1, populated |-> st.populated + 1, missing |-> st.missing]
    ELSE [heap |-> st.heap,
          total |-> st.total + 1, populated |-> st.populated, missing |-> st.missing + 1]

RECURSIVE populate_loop(_, _, _, _)
populate_loop(st, occs, r, keys) ==
    IF keys = << >> THEN st
    ELSE populate_loop(populate_slot(st, occs, r, Head(keys)), occs, r, Tail(keys))

(* populate_occupation_values: the heap after it and the statistics *)
populate_occupation_values(h, occs, r) ==
    LET done == populate_loop([heap |-> h, total |-> 0, populated |-> 0, missing |-> 0],
                              occs, r, SetToSeq(Slots(occs)))
    IN [heap |-> done.heap,
        stats |-> PopulationStats(Cardinality(DOMAIN occs), done.total,
                                  done.populated, done.missing)]

upsert_scale_value_ValidateFirst(h, occ, element_id, scale_id, value) ==
    IF element_id \notin DOMAIN occ.elements
    THEN [heap |-> h, outcome |-> "KeyError"]
    ELSE IF scale_id \notin DOMAIN occ.elements[element_id].scales
    THEN [heap |-> h, outcome |-> "KeyError"]
    ELSE LET a == occ.elements[element_id].scales[scale_id]
             h2 == [h EXCEPT ![a].value = value]
         IN [heap |-> IF validate(h2[a]) = "ok" THEN h2 ELSE h, outcome |-> validate(h2[a])]

(* Occupation.upsert_scale_value: the heap after it and "ok" or the         *)
(* exception raised.                                                        *)
upsert_scale_value(h, occ, element_id, scale_id, value) ==
    IF element_id \notin DOMAIN occ.elements
    THEN [heap |-> h, outcome |-> "KeyError"]
    ELSE IF scale_id \notin DOMAIN occ.elements[element_id].scales
    THEN [heap |-> h, outcome |-> "KeyError"]
    ELSE LET a == occ.elements[element_id].scales[scale_id]
             h2 == [h EXCEPT ![a].value = value]
         IN [heap |-> h2, outcome |-> validate(h2[a])]

----------------------------------------------------------------------------
(* user_service.py: the experience score.  A score is the exact quotient    *)
(* num / den of the float the code returns, counted in units of 1/ScoreUnit *)
(* (every divisor of the code, over values in hundredths, divides it).      *)

Score(num, den) == LET ScoreUnit == 1050000 IN num * (ScoreUnit \div den)

CategoryScalePrefixes == { <<"R", "L", "-">>, <<"R", "W", "-">>, <<"P", "T", "-">>,
                           <<"O", "J", "-">> }

(* The value of element.get_scale(scale_id), None when the scale is absent  *)
(* or holds no value.                                                       *)
ScaleValue(h, element, scale_id) ==
    IF scale_id \in DOMAIN element.scales THEN h[element.scales[scale_id]].value ELSE None

(* The loop over element.scales.items(): the largest value above 0.0 *)
MaxPct(h, element) ==
    LET vals == { Get(h[element.scales[sid]].value) :
                    sid \in { s \in DOMAIN element.scales :
                                /\ \E p \in CategoryScalePrefixes : StartsWith(s, p)
                                /\ h[element.scales[s]].value # None } }
        above == { v \in vals : v > 0 }
    IN IF above = {} THEN 0 ELSE CHOOSE v \in above : \A w \in above : w <= v

calculate_experience_score_NullAsZero(h, element) ==
    LET zero(o) == IF o = None THEN 0 ELSE Get(o)
    IN IF LV \in DOMAIN element.scales /\ IM \in DOMAIN element.scales
       THEN Score(zero(ScaleValue(h, element, LV)) * zero(ScaleValue(h, element, IM)), 350000)
       ELSE IF ScaleValue(h, element, OI) # None THEN Score(Get(ScaleValue(h, element, OI)), 700)
       ELSE IF ScaleValue(h, element, EX) # None THEN Score(Get(ScaleValue(h, element, EX)), 700)
       ELSE IF ScaleValue(h, element, WI) # None
       THEN Score(Get(ScaleValue(h, element, WI)) + 300, 600)
       ELSE IF MaxPct(h, element) > 0 THEN Score(MaxPct(h, element), 10000)
       ELSE Score(1, 2)

(* _calculate_experience_score(element) *)
calculate_experience_score(h, element) ==
    LET lv == ScaleValue(h, element, LV)
        im == ScaleValue(h, element, IM)
        oi == ScaleValue(h, element, OI)
        ex == ScaleValue(h, element, EX)
        wi == ScaleValue(h, element, WI)
        max_pct == MaxPct(h, element)
    IN IF lv # None /\ im # None THEN Score(Get(lv) * Get(im), 350000)
       ELSE IF oi # None THEN Score(Get(oi), 700)
       ELSE IF ex # None THEN Score(Get(ex), 700)
       ELSE IF wi # None THEN Score(Get(wi) + 300, 600)
       ELSE IF max_pct > 0 THEN Score(max_pct, 10000)
       ELSE Score(1, 2)

(* load_occupations_list: the occupation ids of "Occupation Data.txt", in   *)
(* file order (rows [id, title, description]).                              *)
RECURSIVE load_occupations_list(_)
load_occupations_list(rows) ==
    IF rows = << >> THEN << >>
    ELSE LET n == Len(rows)
             before == load_occupations_list(SubSeq(rows, 1, n - 1))
         IN IF Len(rows[n]) < 2 THEN before
            ELSE IF Strip(rows[n][1]) = << >> \/ Strip(rows[n][2]) = << >> THEN before
            ELSE Append(before, Strip(rows[n][1]))

----------------------------------------------------------------------------
(* Sampled reference files *)

MaxCalls == 2
MaxRows == 2

TXT == <<"t">>

E_ABILITIES == <<"1", ".", "A">>
E_ABILITY == <<"1", ".", "A", ".", "1">>
E_STYLE == <<"1", ".", "D", ".", "1">>
E_SKILL == <<"2", ".", "A", ".", "1">>
E_EDUCATION == <<"2", ".", "D", ".", "1">>
E_TASK == <<"4", ".", "A", ".", "1">>
E_UNKNOWN == <<"9", ".", "Z">>
S_UNKNOWN == <<"X", "X">>
RL_1 == <<"R", "L", "-", "1">>

OCC_1 == <<"1", "1", "-", "1">>
OCC_2 == <<"1", "1", "-", "2">>
OCC_UNKNOWN == <<"9", "9", "-", "9">>

HierarchyRow(id) == <<id, TXT, TXT>>
MappingRow(id, scale_id) == <<id, TXT, scale_id, TXT>>
AnchorRow(id, scale_id, anchor) == <<id, TXT, scale_id, anchor, TXT>>
OccupationRow(id) == <<id, TXT, TXT>>

TwoCategories == {<<"1">>, <<"2">>}

CategorySchemas(keys) ==
    [p \in CategoryPrefixes |->
        [scale_id_prefix |-> p, min_value |-> 0, max_value |-> 10000,
         meaning_template |-> "share of respondents", categories |-> keys]]

IM_ROW == <<IM, TXT, <<"1">>, <<"5">>>>
RL_ROW == <<RL, TXT, <<"0">>, <<"1", "0", "0">>>>

(* A hierarchy with one ability (IM + LV), one education element (RL-1),    *)
(* one leaf that gets no scale, and a mapping row for a non-leaf id.        *)
SmallData(scale_rows, occupation_rows) ==
    [content_model |-> << HierarchyRow(E_ABILITIES), HierarchyRow(E_ABILITY),
                          HierarchyRow(E_EDUCATION), HierarchyRow(E_TASK) >>,
     scale_reference |-> scale_rows,
     mapping_1a |-> << MappingRow(E_ABILITY, IM), MappingRow(E_ABILITY, LV),
                       MappingRow(E_ABILITIES, IM) >>,
     mapping_1b |-> << >>,
     mapping_1d |-> << >>,
     mapping_2abc |-> << >>,
     mapping_2d3a |-> << MappingRow(E_EDUCATION, RL) >>,
     anchors |-> << AnchorRow(E_ABILITY, LV, <<"2">>), AnchorRow(E_ABILITY, LV, <<"4">>),
                    AnchorRow(E_ABILITY, LV, <<"6">>), AnchorRow(E_ABILITY, IM, <<"1">>) >>,
     category_schema |-> CategorySchemas({<<"1">>}),
     occupation_data |-> occupation_rows]

ScaleTables == { << IM_ROW, RL_ROW >>, << IM_ROW, <<LV, TXT, <<"0">>, <<"7">>>>, RL_ROW >> }

----------------------------------------------------------------------------
(* Calls *)

Call(op, targets, e, s, v, arg, outcome) ==
    [op |-> op, targets |-> targets, element_id |-> e, scale_id |-> s,
     value |-> v, arg |-> arg, outcome |-> outcome]

InitWith(datasets) ==
    /\ data \in datasets
    /\ scale_defs = load_scale_definitions(data.scale_reference)
    /\ heap = << >>
    /\ schema = None
    /\ occupations = EmptyMap
    /\ file_idx = 1
    /\ ratings = EmptyMap
    /\ all_ratings = EmptyMap
    /\ rows_read = 0
    /\ stats = None
    /\ calls = 0
    /\ last = Call("none", {}, << >>, << >>, None, << >>, "ok")
    /\ pc = "start"
    /\ elements = None
    /\ loaded = {}
    /\ registry = None
    /\ user = [attributes |-> EmptyMap, jobs |-> << >>]
    /\ run = None

Init ==
    InitWith({ SmallData(sr, orows) :
                 sr \in ScaleTables,
                 orows \in { << OccupationRow(OCC_1), OccupationRow(OCC_2) >>,
                             << OccupationRow(OCC_1), OccupationRow(OCC_2),
                                OccupationRow(OCC_1) >> } })

(* schema = create_occupation_schema() *)
CreateOccupationSchema ==
    /\ pc = "start"
    /\ LET made == create_occupation_schema(heap, data, scale_defs)
       IN /\ schema' = Some(made.schema)
          /\ heap' = made.heap
    /\ pc' = "schema"
    /\ last' = Call("create_occupation_schema", {}, << >>, << >>, None, << >>, "ok")
    /\ UNCHANGED <<serviceVars, loaderVars, data, scale_defs, occupations, file_idx,
                   ratings, all_ratings, rows_read, stats, calls>>

(* occupations = create_empty_occupations(load_occupations_list(), schema) *)
CreateEmptyOccupations ==
    /\ pc = "schema"
    /\ LET made == create_empty_occupations(heap, load_occupations_list(data.occupation_data),
                                            Get(schema))
       IN /\ occupations' = made.occupations
          /\ heap' = made.heap
    /\ pc' = "created"
    /\ last' = Call("create_empty_occupations", {}, << >>, << >>, None, << >>, "ok")
    /\ UNCHANGED <<serviceVars, loaderVars, data, scale_defs, schema, file_idx, ratings,
                   all_ratings, rows_read, stats, calls>>

UpsertTargets == { <<E_ABILITY, IM>>, <<E_ABILITY, LV>>, <<E_EDUCATION, RL_1>>,
                   <<E_UNKNOWN, IM>>, <<E_ABILITY, S_UNKNOWN>> }

(* occupations[o].upsert_scale_value(element_id=e, scale_id=s, value=v) *)
UpsertScaleValue(o, e, s, v) ==
    /\ pc = "created"
    /\ calls < MaxCalls
    /\ o \in DOMAIN occupations
    /\ LET done == upsert_scale_value(heap, occupations[o], e, s, v)
       IN /\ heap' = done.heap
          /\ last' = Call("upsert_scale_value", {o}, e, s, v, << >>, done.outcome)
    /\ calls' = calls + 1
    /\ UNCHANGED <<serviceVars, loaderVars, data, scale_defs, schema, occupations,
                   file_idx, ratings, all_ratings, rows_read, stats, pc>>

(* scale.value = v on an ElementScale of the element set the templates were *)
(* built from (the templates hold the same objects).                        *)
SetElementScaleValue(e, s, v) ==
    /\ pc = "schema"
    /\ calls < MaxCalls
    /\ e \in DOMAIN Get(schema).elements
    /\ s \in DOMAIN Get(schema).elements[e].scales
    /\ heap' = [heap EXCEPT ![Get(schema).elements[e].scales[s]].value = v]
    /\ last' = Call("set_value", {}, e, s, v, << >>, "ok")
    /\ calls' = calls + 1
    /\ UNCHANGED <<serviceVars, loaderVars, data, scale_defs, schema, occupations,
                   file_idx, ratings, all_ratings, rows_read, stats, pc>>

RatingSamples ==
    { EmptyMap,
      <<OCC_1, E_ABILITY, IM>> :> 462,
      <<OCC_1, E_ABILITY, IM>> :> 300 @@ <<OCC_2, E_EDUCATION, RL_1>> :> 4591,
      <<OCC_1, E_ABILITY, LV>> :> 15000 @@ <<OCC_UNKNOWN, E_ABILITY, IM>> :> 300,
      <<OCC_2, E_ABILITY, S_UNKNOWN>> :> 300 @@ <<OCC_2, E_UNKNOWN, IM>> :> 300 }

(* populate_occupation_values(occs, r) for a dict occs holding some of the  *)
(* occupations.                                                             *)
PopulateOccupationValues(ids, r) ==
    /\ pc = "created"
    /\ calls < MaxCalls
    /\ ids \subseteq DOMAIN occupations
    /\ LET done == populate_occupation_values(heap, [o \in ids |-> occupations[o]], r)
       IN /\ heap' = done.heap
          /\ stats' = Some(done.stats)
    /\ last' = Call("populate_occupation_values", ids, << >>, << >>, None, r, "ok")
    /\ calls' = calls + 1
    /\ UNCHANGED <<serviceVars, loaderVars, data, scale_defs, schema, occupations,
                   file_idx, ratings, all_ratings, rows_read, pc>>

Next ==
    \/ CreateOccupationSchema
    \/ CreateEmptyOccupations
    \/ \E o \in {OCC_1, OCC_2}, t \in UpsertTargets,
          v \in { None, Some(300), Some(462), Some(900), Some(Infinity) } :
          UpsertScaleValue(o, t[1], t[2], v)
    \/ \E t \in UpsertTargets, v \in {Some(300), Some(462)} : SetElementScaleValue(t[1], t[2], v)
    \/ \E ids \in SUBSET {OCC_1, OCC_2}, r \in RatingSamples : PopulateOccupationValues(ids, r)

Spec == Init /\ [][Next]_vars

----------------------------------------------------------------------------
(* Properties of the instance layer (Spec) *)

TemplateAddrs ==
    IF schema = None THEN {}
    ELSE UNION { Range(Get(schema).elements[e].scales) : e \in DOMAIN Get(schema).elements }

OccupationAddrs(o) ==
    UNION { Range(occupations[o].elements[e].scales) : e \in DOMAIN occupations[o].elements }

(* No ElementScale object is reachable from two occupations, from an        *)
(* occupation and a template, or from two slots of one occupation.          *)
NoSharedScale ==
    /\ \A o \in DOMAIN occupations : OccupationAddrs(o) \cap TemplateAddrs = {}
    /\ \A o1, o2 \in DOMAIN occupations :
          o1 # o2 => OccupationAddrs(o1) \cap OccupationAddrs(o2) = {}
    /\ \A k1, k2 \in Slots(occupations) :
          k1 # k2 => SlotAddr(occupations, k1) # SlotAddr(occupations, k2)

(* A value assignment on some occupations changes no scale of any other     *)
(* occupation and no scale of a template.                                   *)
AssignmentFrame ==
    (calls' = calls + 1 /\ last'.op \in {"upsert_scale_value", "populate_occupation_values"}) =>
        /\ \A a \in TemplateAddrs : heap'[a] = heap[a]
        /\ \A o \in (DOMAIN occupations) \ last'.targets :
              \A a \in OccupationAddrs(o) : heap'[a] = heap[a]
        /\ occupations' = occupations
        /\ schema' = schema

(* C1: instances are independent of each other and of the schema: no two    *)
(* element sets share an ElementScale object, and upsert_scale_value /      *)
(* populate_occupation_values on one occupation leave every scale of every  *)
(* other occupation and of every template as it was.                        *)
C1_InstancesIndependent == [](NoSharedScale) /\ [][AssignmentFrame]_vars

(* An assignment succeeded on one occupation while the same slot of another *)
(* occupation and of the template is still null.                            *)
C1_Witness ==
    /\ last.op = "upsert_scale_value" /\ last.outcome = "ok" /\ last.value # None
    /\ \E o \in last.targets, o2 \in (DOMAIN occupations) \ last.targets :
          /\ heap[occupations[o].elements[last.element_id].scales[last.scale_id]].value
                = last.value
          /\ heap[occupations[o2].elements[last.element_id].scales[last.scale_id]].value
                = None
          /\ heap[Get(schema).elements[last.element_id].scales[last.scale_id]].value = None

(* C2: create_empty_occupations / instantiate_elements give every entity    *)
(* one Element per template, with the template's scale ids, scale_def and   *)
(* semantics, and every value and distribution null, whatever values the    *)
(* template's scales hold.                                                  *)
C2_InstantiateNullCopies ==
    last.op = "create_empty_occupations" =>
        \A o \in DOMAIN occupations :
            /\ DOMAIN occupations[o].elements = DOMAIN Get(schema).elements
            /\ \A e \in DOMAIN occupations[o].elements :
                  LET inst == occupations[o].elements[e]
                      tmpl == Get(schema).elements[e]
                  IN /\ inst.element_id = tmpl.element_id
                     /\ DOMAIN inst.scales = DOMAIN tmpl.scales
                     /\ \A s \in DOMAIN inst.scales :
                           /\ heap[inst.scales[s]].scale_def = heap[tmpl.scales[s]].scale_def
                           /\ heap[inst.scales[s]].ordinal_semantics
                                 = heap[tmpl.scales[s]].ordinal_semantics
                           /\ heap[inst.scales[s]].interval_semantics
                                 = heap[tmpl.scales[s]].interval_semantics
                           /\ heap[inst.scales[s]].value = None
                           /\ heap[inst.scales[s]].distribution = None

(* Occupations were stamped out of a schema whose template holds a value.   *)
C2_Witness ==
    /\ last.op = "create_empty_occupations"
    /\ Cardinality(DOMAIN occupations) = 2
    /\ \E a \in TemplateAddrs : heap[a].value # None

(* C3: every ElementScale attached by the family loaders has exactly one of *)
(* ordinal_semantics / interval_semantics, the one matching its             *)
(* scale_def.scale_type, so that validate() passes while its value is null, *)
(* whatever the scale reference table lists (LV included).                  *)
SemanticsMatchType(es) ==
    /\ (es.ordinal_semantics = None) # (es.interval_semantics = None)
    /\ es.scale_def.scale_type = ORDINAL => es.ordinal_semantics # None
    /\ es.scale_def.scale_type = INTERVAL => es.interval_semantics # None
    /\ validate([es EXCEPT !.value = None]) = "ok"

C3_SemanticsMatchScaleType == \A a \in DOMAIN heap : SemanticsMatchType(heap[a])

(* C4: upsert_scale_value on an ORDINAL scale raises ValueError whenever    *)
(* the non-null value is not an integer or is an integer that is no key of  *)
(* the scale's category map, and succeeds, storing the value, whenever the  *)
(* value is a key of the category map or is null.                           *)
NotAnInteger(v) == IsInf(v) \/ v % 100 # 0

C4_OrdinalUpsertChecked ==
    \A o \in last.targets :
        (/\ last.op = "upsert_scale_value"
         /\ last.element_id \in DOMAIN occupations[o].elements
         /\ last.scale_id \in DOMAIN occupations[o].elements[last.element_id].scales
         /\ heap[occupations[o].elements[last.element_id].scales[last.scale_id]]
               .scale_def.scale_type = ORDINAL)
        =>
        LET es == heap[occupations[o].elements[last.element_id].scales[last.scale_id]]
            keys == Get(es.ordinal_semantics).categories
            v == last.value
            is_key == v # None /\ ~NotAnInteger(Get(v)) /\ (Get(v) \div 100) \in keys
        IN /\ (v # None /\ ~is_key) => last.outcome = "ValueError"
           /\ (v = None \/ is_key) => (last.outcome = "ok" /\ es.value = v)

----------------------------------------------------------------------------
(* populate_all_occupations: schema, empty occupations, every rating file   *)
(* of RATING_FILE_CONFIGS parsed row by row and merged, then population.    *)

RatingRows ==
    { <<OCC_1, E_ABILITY, TXT, IM, <<"4", ".", "6", "2">>, TXT>>,
      <<OCC_1, E_ABILITY, TXT, LV, <<"1", "5", "0">>, TXT>>,
      <<OCC_2, E_EDUCATION, TXT, RL, <<"1">>, <<"4", "5", ".", "9", "1">> >>,
      <<OCC_2, E_EDUCATION, TXT, <<" ", "R", "L">>, <<"1", " ">>, <<"1", "5", "0">> >>,
      <<OCC_1, E_ABILITY, TXT, IM, <<"N", "/", "A">>, <<" ", "3", ".", "0", "0">> >>,
      <<OCC_1, E_ABILITY, TXT, IM, <<"-", "1">> >>,
      <<OCC_1, E_ABILITY, TXT, IM>>,
      <<OCC_1, <<" ">>, TXT, IM, <<"3">>, <<"3">> >>,
      <<OCC_1, E_ABILITY, TXT, IM, << >>, <<"x">> >>,
      <<OCC_UNKNOWN, E_ABILITY, TXT, IM, <<"i", "n", "f">>, <<"2">> >> }

InitIngest ==
    InitWith({ SmallData(sr, << OccupationRow(OCC_1), OccupationRow(OCC_2) >>) :
                 sr \in ScaleTables })

(* One iteration of parse_rating_file's loop over the rows of the current   *)
(* file.                                                                     *)
ParseRatingRow(row) ==
    /\ pc = "created"
    /\ file_idx <= Len(RATING_FILE_CONFIGS)
    /\ rows_read < MaxRows
    /\ ratings' = parse_rating_row(RATING_FILE_CONFIGS[file_idx], ratings, row)
    /\ rows_read' = rows_read + 1
    /\ last' = Call("parse_rating_row", {}, << >>, << >>, None, row, "ok")
    /\ UNCHANGED <<serviceVars, loaderVars, data, scale_defs, heap, schema, occupations,
                   file_idx, all_ratings, stats, calls, pc>>

(* parse_rating_file returns; all_ratings.update(ratings); next config *)
FinishRatingFile ==
    /\ pc = "created"
    /\ file_idx <= Len(RATING_FILE_CONFIGS)
    /\ all_ratings' = Update(all_ratings, ratings)
    /\ ratings' = EmptyMap
    /\ file_idx' = file_idx + 1
    /\ last' = Call("parse_rating_file", {}, << >>, << >>, None, << >>, "ok")
    /\ UNCHANGED <<serviceVars, loaderVars, data, scale_defs, heap, schema, occupations,
                   rows_read, stats, calls, pc>>

(* stats = populate_occupation_values(occupations, all_ratings) *)
PopulateAll ==
    /\ pc = "created"
    /\ file_idx = Len(RATING_FILE_CONFIGS) + 1
    /\ LET done == populate_occupation_values(heap, occupations, all_ratings)
       IN /\ heap' = done.heap
          /\ stats' = Some(done.stats)
    /\ pc' = "populated"
    /\ calls' = calls + 1
    /\ last' = Call("populate_occupation_values", DOMAIN occupations, << >>, << >>, None,
                    all_ratings, "ok")
    /\ UNCHANGED <<serviceVars, loaderVars, data, scale_defs, schema, occupations,
                   file_idx, ratings, all_ratings, rows_read>>

NextIngest ==
    \/ CreateOccupationSchema
    \/ CreateEmptyOccupations
    \/ \E row \in RatingRows : ParseRatingRow(row)
    \/ FinishRatingFile
    \/ PopulateAll

SpecIngest == InitIngest /\ [][NextIngest]_vars

----------------------------------------------------------------------------
(* Properties of the ingestion run (SpecIngest) *)

IsCategoryKey(es) ==
    /\ ~NotAnInteger(Get(es.value))
    /\ es.ordinal_semantics # None
    /\ (Get(es.value) \div 100) \in Get(es.ordinal_semantics).categories

C6_ValuesWithinRange ==
    \A a \in DOMAIN heap :
        heap[a].value # None =>
            /\ Get(heap[a].value) >= heap[a].scale_def.min_value
            /\ Get(heap[a].value) <= heap[a].scale_def.max_value

(* C7: after populate_occupation_values(occupations, ratings) every slot    *)
(* whose (occupation, element, scale) key is in ratings holds ratings[key], *)
(* and every other slot is still null.                                      *)
C7_PopulatedFromRatings ==
    pc = "populated" =>
        \A k \in Slots(occupations) :
            heap[SlotAddr(occupations, k)].value =
                IF k \in DOMAIN last.arg THEN Some(last.arg[k]) ELSE None

(* A run with a rated slot, an unrated slot and a rating that matches no    *)
(* slot.                                                                    *)
C7_Witness ==
    /\ pc = "populated"
    /\ \E k \in Slots(occupations) : heap[SlotAddr(occupations, k)].value = Some(462)
    /\ \E k \in Slots(occupations) : k \notin DOMAIN last.arg
    /\ \E k \in DOMAIN last.arg : k \notin Slots(occupations)

(* C8: the returned statistics satisfy populated + missing = total, with    *)
(* total the number of slots of the given occupations, populated the number *)
(* of slots whose key is in the rating map, and total_occupations the       *)
(* number of occupations.                                                   *)
C8_CoverageStatistics ==
    pc = "populated" =>
        LET st == Get(stats)
        IN /\ st.populated_scales + st.missing_scales = st.total_possible_scales
           /\ st.total_possible_scales = Cardinality(Slots(occupations))
           /\ st.populated_scales = Cardinality(Slots(occupations) \cap DOMAIN all_ratings)
           /\ st.total_occupations = Cardinality(DOMAIN occupations)

C8_Witness ==
    /\ pc = "populated"
    /\ Get(stats).populated_scales = 2
    /\ Get(stats).missing_scales = 4

ClaimValueColumn(config) == IF config.has_category_column THEN 5 ELSE 4

ClaimMalformed(config, row) ==
    \/ Len(row) <= ClaimValueColumn(config)
    \/ Strip(row[1]) = << >> \/ Strip(row[2]) = << >> \/ Strip(row[4]) = << >>
    \/ Strip(row[ClaimValueColumn(config) + 1]) = << >>
    \/ Lower(Strip(row[ClaimValueColumn(config) + 1])) = <<"n", "/", "a">>
    \/ ParseFloat(row[ClaimValueColumn(config) + 1]) = None

ClaimScaleId(config, row) ==
    IF config.has_category_column /\ Strip(row[4]) \in {RL, RW, PT, OJ}
    THEN Strip(row[4]) \o <<"-">> \o Strip(row[5])
    ELSE Strip(row[4])

RowParsed == last'.op = "parse_rating_row" /\ rows_read' = rows_read + 1

(* C9: a row is stored under "{scale_id}-{category}" exactly when the file  *)
(* has a category column and the raw scale id is one of RL, RW, PT, OJ, and *)
(* under the raw scale id otherwise; its value is read from column 4        *)
(* without a category column and from column 5 with one.                    *)
C9_EffectiveScaleId ==
    [][ (RowParsed /\ ~ClaimMalformed(RATING_FILE_CONFIGS[file_idx], last'.arg)) =>
            LET config == RATING_FILE_CONFIGS[file_idx]
                row == last'.arg
            IN ratings' = Put(ratings,
                              <<Strip(row[1]), Strip(row[2]), ClaimScaleId(config, row)>>,
                              Get(ParseFloat(row[ClaimValueColumn(config) + 1]))) ]_vars

(* The category file stored an RL row under RL-1 and an IM row under IM.    *)
C9_Witness ==
    /\ last.op = "parse_rating_row"
    /\ RATING_FILE_CONFIGS[file_idx].has_category_column
    /\ <<OCC_1, E_ABILITY, IM>> \in DOMAIN ratings
    /\ <<OCC_2, E_EDUCATION, RL_1>> \in DOMAIN ratings

(* C10: a malformed row (too short, an empty id, a value that is empty,     *)
(* n/a in any case or not a number) adds no key, raises nothing and leaves  *)
(* every other entry, an earlier one with the same key included, as it was. *)
C10_MalformedRowSkipped ==
    [][ (RowParsed /\ ClaimMalformed(RATING_FILE_CONFIGS[file_idx], last'.arg)) =>
            /\ ratings' = ratings
            /\ all_ratings' = all_ratings
            /\ last'.outcome = "ok" ]_vars

(* A row with an empty value followed a valid row with the same key.        *)
C10_Witness ==
    /\ last.op = "parse_rating_row"
    /\ file_idx <= Len(RATING_FILE_CONFIGS)
    /\ ClaimMalformed(RATING_FILE_CONFIGS[file_idx], last.arg)
    /\ Len(last.arg) > 4
    /\ <<Strip(last.arg[1]), Strip(last.arg[2]), Strip(last.arg[4])>> \in DOMAIN ratings

----------------------------------------------------------------------------
(* Schema construction, loader by loader (SpecSchema).  Every family loader *)
(* is a public function taking the elements dict; create_occupation_schema  *)
(* calls them in the order 1A, 1B, 1D, 2ABC, 2D3A.                          *)

Families == {"1A", "1B", "1D", "2ABC", "2D3A"}

RunFamilyLoader(f, els, d, sdefs) ==
    CASE f = "1A" -> populate_1a_element_scales(els, d, sdefs)
      [] f = "1B" -> populate_1b_element_scales(els, d)
      [] f = "1D" -> populate_1d_element_scales(els, d)
      [] f = "2ABC" -> populate_2abc_element_scales(els, d, sdefs)
      [] f = "2D3A" -> populate_2d3a_element_scales(els, d)

(* A hierarchy with one leaf per family, a leaf no mapping lists and a      *)
(* non-leaf id that a mapping lists.  With overlap, the ability is also     *)
(* listed in the mapping files of three other families.                     *)
SchemaData(scale_rows, keys, overlap) ==
    [content_model |-> << HierarchyRow(E_ABILITIES), HierarchyRow(E_ABILITY),
                          HierarchyRow(<<"1", ".", "B", ".", "1">>),
                          HierarchyRow(<<"1", ".", "B", ".", "2">>),
                          HierarchyRow(E_STYLE), HierarchyRow(E_SKILL),
                          HierarchyRow(E_EDUCATION), HierarchyRow(E_TASK) >>,
     scale_reference |-> scale_rows,
     mapping_1a |-> << MappingRow(E_ABILITY, IM), MappingRow(E_ABILITY, LV),
                       MappingRow(E_ABILITIES, IM) >>,
     mapping_1b |-> << MappingRow(<<"1", ".", "B", ".", "1">>, OI),
                      MappingRow(<<"1", ".", "B", ".", "2">>, EX) >>
                    \o (IF overlap THEN << MappingRow(E_ABILITY, OI) >> ELSE << >>),
     mapping_1d |-> << MappingRow(E_STYLE, WI), MappingRow(E_STYLE, DR) >>,
     mapping_2abc |-> << MappingRow(E_SKILL, IM), MappingRow(E_SKILL, LV) >>
                      \o (IF overlap THEN << MappingRow(E_ABILITY, IM),
                                             MappingRow(E_ABILITY, LV) >> ELSE << >>),
     mapping_2d3a |-> << MappingRow(E_EDUCATION, RL), MappingRow(E_EDUCATION, IM),
                         MappingRow(E_EDUCATION, << >>), MappingRow(E_UNKNOWN, PT) >>
                      \o (IF overlap THEN << MappingRow(E_ABILITY, PT) >> ELSE << >>),
     anchors |-> << AnchorRow(E_ABILITY, LV, <<"2">>), AnchorRow(E_ABILITY, LV, <<"4">>),
                    AnchorRow(E_SKILL, LV, <<"3">>), AnchorRow(E_SKILL, IM, <<"1">>) >>,
     category_schema |-> CategorySchemas(keys),
     occupation_data |-> << OccupationRow(OCC_1) >>]

(* The category schemas hold one, two or twelve categories. *)
InitSchema ==
    InitWith({ SchemaData(sr, keys, overlap) :
                 sr \in ScaleTables,
                 keys \in { {<<"1">>}, TwoCategories, { IntToStr(i) : i \in 1..12 } },
                 overlap \in BOOLEAN })

(* elements = load_elements() *)
LoadElements ==
    /\ pc = "start"
    /\ elements = None
    /\ elements' = Some(load_elements(data.content_model))
    /\ loaded' = {}
    /\ last' = Call("load_elements", {}, << >>, << >>, None, << >>, "ok")
    /\ UNCHANGED <<serviceVars, registry, data, scale_defs, heap, schema, occupations,
                   file_idx, ratings, all_ratings, rows_read, stats, calls, pc>>

(* populate_<family>_element_scales(elements) *)
PopulateElementScales(f) ==
    /\ pc = "start"
    /\ elements # None
    /\ f \notin loaded
    /\ elements' = Some(RunFamilyLoader(f, Get(elements), data, scale_defs))
    /\ loaded' = loaded \cup {f}
    /\ last' = Call("populate_element_scales", {}, << >>, << >>, None, f, "ok")
    /\ UNCHANGED <<serviceVars, registry, data, scale_defs, heap, schema, occupations,
                   file_idx, ratings, all_ratings, rows_read, stats, calls, pc>>

(* The tail of create_occupation_schema, once every loader ran *)
FreezeTemplates ==
    /\ pc = "start"
    /\ elements # None
    /\ loaded = Families
    /\ LET built == SchemaOf(heap, Get(elements))
       IN /\ schema' = Some(built.schema)
          /\ heap' = built.heap
    /\ pc' = "schema"
    /\ last' = Call("create_occupation_schema", {}, << >>, << >>, None, << >>, "ok")
    /\ UNCHANGED <<serviceVars, loaderVars, data, scale_defs, occupations, file_idx,
                   ratings, all_ratings, rows_read, stats, calls>>

NextSchema ==
    \/ LoadElements
    \/ \E f \in Families : PopulateElementScales(f)
    \/ FreezeTemplates
    \/ CreateOccupationSchema

SpecSchema == InitSchema /\ [][NextSchema]_vars

----------------------------------------------------------------------------
(* Properties of the schema construction (SpecSchema) *)

(* The leaf ids of the hierarchy table: ids that no other id lies below *)
TableLeafIds ==
    LET ids == { Strip(data.content_model[i][1]) : i \in 1..Len(data.content_model) }
    IN { x \in ids : ~\E y \in ids : y # x /\ StartsWith(y, x \o <<".">>) }

(* The scale ids / prefixes a mapping file lists for element e *)
Listed(rows, e) ==
    { Strip(rows[i][3]) : i \in { j \in 1..Len(rows) : Strip(rows[j][1]) = e } }

CategoryScaleIds(P) ==
    { P \o <<"-">> \o k : k \in data.category_schema[P].categories }

(* C11: a leaf element whose mapping lists a prefix P of RL, RW, PT, OJ has *)
(* exactly one scale per category c of P's schema, under the id "P-c" (for  *)
(* twelve categories exactly P-1 .. P-12), each a distinct ElementScale of  *)
(* type INTERVAL with range [0, 100], interval_semantics set, no            *)
(* ordinal_semantics and a null value.                                      *)
C11_CategoryExpansion ==
    pc = "schema" =>
        \A e \in TableLeafIds :
            \A P \in Listed(data.mapping_2d3a, e) \cap {RL, RW, PT, OJ} :
                /\ e \in DOMAIN Get(schema).elements
                /\ LET scales == Get(schema).elements[e].scales
                   IN /\ { sid \in DOMAIN scales : StartsWith(sid, P \o <<"-">>) }
                            = CategoryScaleIds(P)
                      /\ \A s1, s2 \in CategoryScaleIds(P) :
                            s1 # s2 => scales[s1] # scales[s2]
                      /\ \A sid \in CategoryScaleIds(P) :
                            LET es == heap[scales[sid]]
                            IN /\ es.scale_def.scale_id = sid
                               /\ es.scale_def.scale_type = INTERVAL
                               /\ es.scale_def.min_value = 0
                               /\ es.scale_def.max_value = 10000
                               /\ es.interval_semantics # None
                               /\ es.ordinal_semantics = None
                               /\ es.value = None

(* The education element of a schema built from a twelve-category RL file   *)
(* holds RL-1 and RL-12.                                                    *)
C11_Witness ==
    /\ pc = "schema"
    /\ Cardinality(data.category_schema[RL].categories) = 12
    /\ E_EDUCATION \in DOMAIN Get(schema).elements
    /\ {RL_1, <<"R", "L", "-", "1", "2">>} \subseteq DOMAIN Get(schema).elements[E_EDUCATION].scales
    /\ Cardinality(DOMAIN Get(schema).elements[E_EDUCATION].scales) = 13

(* The leaf elements to which the loader of family f attaches a scale *)
AttachedBy(f) ==
    LET fresh == [e \in TableLeafIds |-> EmptyMap]
        after == RunFamilyLoader(f, fresh, data, scale_defs)
    IN { e \in TableLeafIds : DOMAIN after[e] # {} }

FamilyCountSum ==
    Cardinality(AttachedBy("1A")) + Cardinality(AttachedBy("1B"))
      + Cardinality(AttachedBy("1D")) + Cardinality(AttachedBy("2ABC"))
      + Cardinality(AttachedBy("2D3A"))

SchemaIsScaledLeaves ==
    /\ DOMAIN Get(schema).elements = UNION { AttachedBy(f) : f \in Families }
    /\ DOMAIN Get(schema).elements \subseteq TableLeafIds
    /\ \A e \in DOMAIN Get(schema).elements : DOMAIN Get(schema).elements[e].scales # {}

(* C16 as claimed: the schema's element ids are exactly the leaf elements   *)
(* with at least one scale, and the schema's size is the sum over the       *)
(* families of the number of leaf elements the family's loader attached     *)
(* scales to.                                                               *)
C16_SchemaSizeIsFamilySum ==
    pc = "schema" =>
        /\ SchemaIsScaledLeaves
        /\ Cardinality(DOMAIN Get(schema).elements) = FamilyCountSum

(* C16 amended: the schema's element ids are exactly the leaf elements with *)
(* at least one scale; its size counts an element once however many         *)
(* loaders attached scales to it, so it is at most the sum of the family    *)
(* counts and equals it exactly when no element is served by two families.  *)
C16_SchemaIsScaledLeaves ==
    pc = "schema" =>
        /\ SchemaIsScaledLeaves
        /\ Cardinality(DOMAIN Get(schema).elements) <= FamilyCountSum
        /\ (Cardinality(DOMAIN Get(schema).elements) = FamilyCountSum)
              <=> (\A f, g \in Families : f # g => AttachedBy(f) \cap AttachedBy(g) = {})

(* A schema built from mapping files of which two list the same leaf, and   *)
(* from a hierarchy with a leaf that gets no scale.                         *)
C16_Witness ==
    /\ pc = "schema"
    /\ E_ABILITY \in AttachedBy("1A") \cap AttachedBy("1B")
    /\ E_TASK \in TableLeafIds \ DOMAIN Get(schema).elements
    /\ E_ABILITIES \notin DOMAIN Get(schema).elements

(* The content of a schema: per element, per scale id, the ElementScale *)
SchemaContent(sch, h) ==
    [e \in DOMAIN sch.elements |->
        [sid \in DOMAIN sch.elements[e].scales |-> h[sch.elements[e].scales[sid]]]]

LoaderKeepsScales ==
    (elements # None /\ elements' # None /\ loaded' # loaded) =>
        \A e \in DOMAIN Get(elements) :
            /\ e \in DOMAIN Get(elements')
            /\ \A sid \in DOMAIN Get(elements)[e] :
                  /\ sid \in DOMAIN Get(elements')[e]
                  /\ Get(elements')[e][sid] = Get(elements)[e][sid]

(* C17: whatever the order in which the five family loaders ran over the    *)
(* leaf elements, the schema has the same element ids and, per element, the *)
(* same scale ids with the same type, range and semantics as the schema of  *)
(* create_occupation_schema; and no loader changes or removes a scale that  *)
(* another loader attached.                                                 *)
C17_LoaderOrderIndependent ==
    /\ [](pc = "schema" /\ loaded = Families =>
            LET canonical == create_occupation_schema(<< >>, data, scale_defs)
            IN SchemaContent(Get(schema), heap)
                  = SchemaContent(canonical.schema, canonical.heap))
    /\ [][LoaderKeepsScales]_vars

(* The templates were frozen after the five loaders ran, one by one, over   *)
(* an ability that four of them list.                                       *)
C17_Witness ==
    /\ pc = "schema"
    /\ loaded = Families
    /\ last.op = "create_occupation_schema"
    /\ E_ABILITY \in AttachedBy("1A") \cap AttachedBy("1B") \cap AttachedBy("2ABC")
                       \cap AttachedBy("2D3A")

----------------------------------------------------------------------------
(* The hierarchy reference table, the leaf elements and the organization    *)
(* registry (SpecHierarchy).                                                *)

MaxIdLen == 4

(* The identifier strings of at most MaxIdLen characters *)
IdStrings == UNION { [1..n -> {"1", "A", "."}] : n \in 0..MaxIdLen }

NAME == <<"N">>
DESC == <<"D">>

(* Rows [id, name, description] of "Content Model Reference.txt": a root    *)
(* category, a category with a child, childless ids whose description       *)
(* repeats or continues the name, an id whose ancestors have no row, a row  *)
(* without a name and a row without the description column.                 *)
HierarchyRowPool ==
    { << <<"1">>, NAME, NAME >>,
      << <<"1", ".", "A">>, NAME, DESC >>,
      << <<"1", ".", "A", ".", "1">>, NAME, DESC >>,
      << <<"1", ".", "B">>, NAME, NAME >>,
      << <<"1", ".", "C">>, NAME, <<"N", " ", "x">> >>,
      << <<"2", ".", "A", ".", "1">>, NAME, << >> >>,
      << <<"1", ".", "A", ".", "2">>, <<" ">>, DESC >>,
      << <<"3">>, NAME >> }

HierarchyData(rows) ==
    [SmallData(<< IM_ROW, RL_ROW >>, << OccupationRow(OCC_1) >>)
        EXCEPT !.content_model = rows]

InitHierarchy ==
    InitWith({ HierarchyData(SetToSeq(rows)) : rows \in SUBSET HierarchyRowPool })

(* _ORGANIZATION_REGISTRY = load_organization_registry() *)
LoadOrganizationRegistry ==
    /\ registry = None
    /\ registry' = Some(load_organization_registry(data.content_model))
    /\ last' = Call("load_organization_registry", {}, << >>, << >>, None, << >>, "ok")
    /\ UNCHANGED <<serviceVars, elements, loaded, data, scale_defs, heap, schema,
                   occupations, file_idx, ratings, all_ratings, rows_read, stats, calls,
                   pc>>

(* registry.get(org_id) *)
RegistryGet(org_id) ==
    /\ registry # None
    /\ LET got == registry_get(Get(registry), org_id)
       IN last' = Call("get", {}, org_id, << >>, None, got.node, got.outcome)
    /\ UNCHANGED <<serviceVars, loaderVars, data, scale_defs, heap, schema, occupations,
                   file_idx, ratings, all_ratings, rows_read, stats, calls, pc>>

(* Element(element_id=..., element_name=...): organizations are derived by  *)
(* __post_init__.                                                           *)
NewElement(element_id) ==
    /\ last' = Call("Element", {}, element_id, << >>, None,
                    compute_organizations(element_id), "ok")
    /\ UNCHANGED <<serviceVars, loaderVars, data, scale_defs, heap, schema, occupations,
                   file_idx, ratings, all_ratings, rows_read, stats, calls, pc>>

NextHierarchy ==
    \/ LoadElements
    \/ LoadOrganizationRegistry
    \/ \E org_id \in { Strip(row[1]) : row \in HierarchyRowPool }
                        \cup UNION { Prefixes(Strip(row[1])) : row \in HierarchyRowPool }
                        \cup { <<"9">> } :
          RegistryGet(org_id)

SpecHierarchy == InitHierarchy /\ [][NextHierarchy]_vars

(* Element construction alone, over every identifier string (SpecElement) *)
NextElement == \E element_id \in IdStrings : NewElement(element_id)

SpecElement == InitWith({ HierarchyData(<< >>) }) /\ [][NextElement]_vars

----------------------------------------------------------------------------
(* Properties of element construction (SpecElement) *)

(* The proper dot-prefixes of x from the root down: what precedes each dot  *)
(* of x, the empty prefix excluded.                                         *)
ProperDotPrefixes(x) ==
    LET dots == SelectSeq([k \in 1..Len(x) |-> k], LAMBDA k : k > 1 /\ x[k] = ".")
    IN [i \in 1..Len(dots) |-> SubSeq(x, 1, dots[i] - 1)]

HasEmptySegment(x) == \E i \in 1..Len(Split(x)) : Split(x)[i] = << >>

(* x without its empty segments *)
WithoutEmptySegments(x) == Join(SelectSeq(Split(x), LAMBDA p : p # << >>))

(* C12 as claimed: for every identifier string, ids with empty segments     *)
(* included, the organizations computed at construction are exactly the     *)
(* proper dot-prefixes of the id, root first, the id itself excluded.       *)
C12_OrganizationsAreDotPrefixes ==
    last.op = "Element" => last.arg = ProperDotPrefixes(last.element_id)

(* C12 amended: empty segments are dropped first: the organizations are the *)
(* proper dot-prefixes, root first, of the id without its empty segments;   *)
(* for an id without empty segments they are the proper dot-prefixes of the *)
(* id itself, and an id with at most one non-empty segment has none.        *)
C12_OrganizationsOfNormalisedId ==
    last.op = "Element" =>
        /\ last.arg = ProperDotPrefixes(WithoutEmptySegments(last.element_id))
        /\ ~HasEmptySegment(last.element_id)
              => last.arg = ProperDotPrefixes(last.element_id)
        /\ Len(SelectSeq(Split(last.element_id), LAMBDA p : p # << >>)) <= 1
              => last.arg = << >>

(* An element was built from an id with an empty segment in the middle *)
C12_Witness ==
    /\ last.op = "Element"
    /\ last.element_id = <<"1", ".", ".", "A">>
    /\ last.arg = << <<"1">> >>

----------------------------------------------------------------------------
(* Properties of the hierarchy loaders (SpecHierarchy) *)

(* The ids of the table's entries: rows that give an id and a name *)
TableIds ==
    { Strip(data.content_model[i][1]) :
        i \in { j \in 1..Len(data.content_model) :
                  /\ Len(data.content_model[j]) >= 2
                  /\ Strip(data.content_model[j][1]) # << >>
                  /\ Strip(data.content_model[j][2]) # << >> } }

Below(x, ids) == { y \in ids : y # x /\ StartsWith(y, x \o <<".">>) }

(* C13: the element set returned by load_elements holds no id x such that   *)
(* another id of the set starts with x + ".", and holds every table id that *)
(* has no other table id below it.                                          *)
C13_LeafInvariant ==
    elements # None =>
        /\ \A x \in DOMAIN Get(elements) : Below(x, DOMAIN Get(elements)) = {}
        /\ \A x \in TableIds : Below(x, TableIds) = {} => x \in DOMAIN Get(elements)

(* Elements were loaded from a table with a category, its child and a       *)
(* childless sibling: the category is left out and both leaves are in.      *)
C13_Witness ==
    /\ elements # None
    /\ {<<"1", ".", "A">>, <<"1", ".", "A", ".", "1">>, <<"1", ".", "B">>} \subseteq TableIds
    /\ <<"1", ".", "A">> \notin DOMAIN Get(elements)
    /\ {<<"1", ".", "A", ".", "1">>, <<"1", ".", "B">>} \subseteq DOMAIN Get(elements)

(* The known ids: rows that supply (id, name, description) *)
KnownRows ==
    { j \in 1..Len(data.content_model) :
        /\ Len(data.content_model[j]) >= 3
        /\ Strip(data.content_model[j][1]) # << >>
        /\ Strip(data.content_model[j][2]) # << >> }

KnownIds == { Strip(data.content_model[j][1]) : j \in KnownRows }

IsCategoryRow(id) ==
    \E j \in KnownRows :
        /\ Strip(data.content_model[j][1]) = id
        /\ StartsWith(Strip(data.content_model[j][3]), Strip(data.content_model[j][2]))

(* C14: the registry has a node for every known id that is a proper         *)
(* dot-prefix of another known id or whose row has a description equal to   *)
(* or starting with its name, and for no other id; get(id) returns the node *)
(* of an id that has one and raises KeyError for every other id.            *)
C14_RegistryNodes ==
    registry # None =>
        /\ DOMAIN Get(registry) =
              { id \in KnownIds : Below(id, KnownIds) # {} \/ IsCategoryRow(id) }
        /\ last.op = "get" =>
              IF last.element_id \in DOMAIN Get(registry)
              THEN /\ last.outcome = "ok"
                   /\ last.arg = Some(Get(registry)[last.element_id])
                   /\ Get(registry)[last.element_id].org_id = last.element_id
              ELSE last.outcome = "KeyError"

(* The registry holds a node that has a child and a childless node whose    *)
(* description continues its name, and get() just failed for an id that is  *)
(* a prefix of a known id but has no row.                                   *)
C14_Witness ==
    /\ registry # None
    /\ {<<"1", ".", "A">>, <<"1", ".", "C">>} \subseteq DOMAIN Get(registry)
    /\ <<"2", ".", "A", ".", "1">> \in KnownIds
    /\ last.op = "get"
    /\ last.element_id = <<"2", ".", "A">>
    /\ last.outcome = "KeyError"

(* C15: no id is both an organization node of the registry and a leaf       *)
(* element returned by load_elements from the same table.                   *)
C15_OrganizationNodesAreNonLeaf ==
    (registry # None /\ elements # None) =>
        DOMAIN Get(registry) \cap DOMAIN Get(elements) = {}

----------------------------------------------------------------------------
(* Scoring the elements of a populated occupation (SpecScore) *)

PT_1 == <<"P", "T", "-", "1">>
PT_2 == <<"P", "T", "-", "2">>

(* Reference files whose mappings give the ability a scale of every kind:   *)
(* IM, LV, OI, EX, WI, DR and the two PT categories.                        *)
ScoreData ==
    LET d == SchemaData(<< IM_ROW, RL_ROW >>, TwoCategories, TRUE)
    IN [d EXCEPT !.mapping_1b = d.mapping_1b \o << MappingRow(E_ABILITY, EX) >>,
                 !.mapping_1d = d.mapping_1d \o << MappingRow(E_ABILITY, WI),
                                                   MappingRow(E_ABILITY, DR) >>]

(* Rating maps for the ability of OCC_1: per scale no rating or one of a    *)
(* few values of the scale's range; for LV also 150, which a rating file    *)
(* can hold and population assigns.                                         *)
ScoreRatings ==
    LET RatingsOf(opt) ==
            [k \in { <<OCC_1, E_ABILITY, sid>> : sid \in { s \in DOMAIN opt : opt[s] # None } }
                |-> Get(opt[k[3]])]
    IN { RatingsOf((IM :> im) @@ (LV :> lv) @@ (OI :> oi) @@ (EX :> ex) @@ (WI :> wi)
                     @@ (DR :> dr) @@ (PT_1 :> p1) @@ (PT_2 :> p2)) :
           im \in {None, Some(462)}, lv \in {None, Some(488), Some(15000)},
           oi \in {None, Some(350)},
           ex \in {None, Some(700)}, wi \in {None, Some(0 - 300), Some(150)},
           dr \in {None, Some(300)}, p1 \in {None, Some(0), Some(4591)},
           p2 \in {None, Some(0), Some(10000)} }


(* experience_score = _calculate_experience_score(element) for an element   *)
(* of occupation o.                                                         *)
CalculateExperienceScore(o, e) ==
    /\ pc = "created"
    /\ o \in DOMAIN occupations
    /\ e \in DOMAIN occupations[o].elements
    /\ last' = Call("_calculate_experience_score", {o}, e, << >>, None,
                    calculate_experience_score(heap, occupations[o].elements[e]), "ok")
    /\ UNCHANGED <<serviceVars, loaderVars, data, scale_defs, heap, schema, occupations,
                   file_idx, ratings, all_ratings, rows_read, stats, calls, pc>>

NextScore ==
    \/ CreateOccupationSchema
    \/ CreateEmptyOccupations
    \/ \E r \in ScoreRatings : calls = 0 /\ PopulateOccupationValues({OCC_1}, r)
    \/ \E e \in {E_ABILITY, E_EDUCATION, E_STYLE} : CalculateExperienceScore(OCC_1, e)

SpecScore == InitWith({ ScoreData }) /\ [][NextScore]_vars

----------------------------------------------------------------------------
(* Properties of the experience score *)

SameScore(a, b) == a = b

Scored == last.op = "_calculate_experience_score"

ScoredElement == occupations[OCC_1].elements[last.element_id]

NonNull(sid) == ScaleValue(heap, ScoredElement, sid) # None

ValueOf(sid) == Get(ScaleValue(heap, ScoredElement, sid))

(* The populated category-distribution scales of the scored element *)
PopulatedCategoryScales ==
    { sid \in DOMAIN ScoredElement.scales :
        /\ \E p \in CategoryScalePrefixes : StartsWith(sid, p)
        /\ NonNull(sid) }

MaxOfPopulated ==
    CHOOSE v \in { ValueOf(sid) : sid \in PopulatedCategoryScales } :
        \A sid \in PopulatedCategoryScales : ValueOf(sid) <= v

NoneOfRules1To4 ==
    /\ ~(NonNull(LV) /\ NonNull(IM))
    /\ ~NonNull(OI)
    /\ ~NonNull(EX)
    /\ ~NonNull(WI)

(* The score the priority order prescribes for the scored element *)
PriorityScore ==
    IF NonNull(LV) /\ NonNull(IM) THEN Score(ValueOf(LV) * ValueOf(IM), 350000)
    ELSE IF NonNull(OI) THEN Score(ValueOf(OI), 700)
    ELSE IF NonNull(EX) THEN Score(ValueOf(EX), 700)
    ELSE IF NonNull(WI) THEN Score(ValueOf(WI) + 300, 600)
    ELSE IF PopulatedCategoryScales # {} THEN Score(MaxOfPopulated, 10000)
    ELSE Score(1, 2)

(* C18: the score follows the priority order, first match wins: LV and IM   *)
(* both non-null give LV*IM/35, else OI gives OI/7, else EX gives EX/7,     *)
(* else WI gives (WI+3)/6, else the category-distribution scales give       *)
(* max/100, else 0.5.                                                       *)
C18_ScorePriorityOrder == Scored => SameScore(last.arg, PriorityScore)

(* C19: an element that matches none of rules 1-4 and has a populated       *)
(* category-distribution scale scores the maximum of the populated values   *)
(* divided by 100, and 0.5 is returned only when no category-distribution   *)
(* scale is populated.                                                      *)
C19_CategoryMaximum ==
    (Scored /\ NoneOfRules1To4) =>
        /\ PopulatedCategoryScales # {} => SameScore(last.arg, Score(MaxOfPopulated, 10000))
        /\ SameScore(last.arg, Score(1, 2)) => PopulatedCategoryScales = {}

(* The element without the scales whose value is null *)
WithoutNullScales(h, element) ==
    [element EXCEPT !.scales =
        [sid \in { s \in DOMAIN element.scales : h[element.scales[s]].value # None }
            |-> element.scales[sid]]]

ScoringStep == last'.op = "_calculate_experience_score" /\ last' # last

(* C20: computing the score leaves the element, its scales and their values *)
(* unchanged, and the score of an element is the score of the element       *)
(* without its null-valued scales.                                          *)
C20_ScorePureNullAsAbsent ==
    /\ [](Scored => SameScore(last.arg,
                       calculate_experience_score(heap, WithoutNullScales(heap, ScoredElement))))
    /\ [][ScoringStep => UNCHANGED <<heap, occupations, schema>>]_vars

(* An element was scored that holds LV without a value next to a rated IM,  *)
(* a rated category scale and an unrated one.                               *)
C20_Witness ==
    /\ Scored
    /\ last.element_id = E_ABILITY
    /\ LV \in DOMAIN ScoredElement.scales
    /\ ~NonNull(LV)
    /\ NonNull(IM)
    /\ NonNull(PT_1)
    /\ ~NonNull(PT_2)
    /\ SameScore(last.arg, Score(4591, 10000))

(* C21: the score of every element instantiated from the schema and         *)
(* populated from a rating map lies within [0, 1].                          *)
C21_ScoreWithinUnitInterval == Scored => (0 <= last.arg /\ last.arg <= Score(1, 1))

----------------------------------------------------------------------------
(* Lookups by id, over scale tables with well-formed and malformed rows     *)
(* (SpecLookup)                                                             *)

(* occupations[o].get_element(element_id): the element or None *)
GetElement(o, element_id) ==
    /\ pc = "created"
    /\ o \in DOMAIN occupations
    /\ last' = Call("get_element", {o}, element_id, << >>, None,
                    IF element_id \in DOMAIN occupations[o].elements
                    THEN Some(occupations[o].elements[element_id]) ELSE None, "ok")
    /\ UNCHANGED <<serviceVars, loaderVars, data, scale_defs, heap, schema, occupations,
                   file_idx, ratings, all_ratings, rows_read, stats, calls, pc>>

(* occupations[o].elements[e].get_scale(scale_id): the scale or None *)
GetScale(o, e, scale_id) ==
    /\ pc = "created"
    /\ o \in DOMAIN occupations
    /\ e \in DOMAIN occupations[o].elements
    /\ last' = Call("get_scale", {o}, e, scale_id, None,
                    IF scale_id \in DOMAIN occupations[o].elements[e].scales
                    THEN Some(heap[occupations[o].elements[e].scales[scale_id]]) ELSE None,
                    "ok")
    /\ UNCHANGED <<serviceVars, loaderVars, data, scale_defs, heap, schema, occupations,
                   file_idx, ratings, all_ratings, rows_read, stats, calls, pc>>

(* ElementTemplateRegistry.create_element(element_id), the registry holding *)
(* the schema's templates: KeyError, or a new element of the template.      *)
CreateElement(element_id) ==
    /\ schema # None
    /\ calls < MaxCalls
    /\ IF element_id \notin DOMAIN Get(schema).elements
       THEN /\ last' = Call("create_element", {}, element_id, << >>, None, None, "KeyError")
            /\ heap' = heap
       ELSE LET made == instantiate(heap, Get(schema).elements[element_id])
            IN /\ last' = Call("create_element", {}, element_id, << >>, None,
                               Some(made.element), "ok")
               /\ heap' = made.heap
    /\ calls' = calls + 1
    /\ UNCHANGED <<serviceVars, loaderVars, data, scale_defs, schema, occupations,
                   file_idx, ratings, all_ratings, rows_read, stats, pc>>

NextLookup ==
    \/ CreateOccupationSchema
    \/ CreateEmptyOccupations
    \/ LoadOrganizationRegistry
    \/ \E org_id \in {E_ABILITIES, E_ABILITY, E_UNKNOWN} : RegistryGet(org_id)
    \/ \E e \in {E_ABILITY, E_ABILITIES, E_UNKNOWN} : GetElement(OCC_1, e)
    \/ \E e \in {E_ABILITY, E_EDUCATION}, s \in {IM, LV, RL_1, S_UNKNOWN} : GetScale(OCC_1, e, s)
    \/ \E e \in {E_ABILITY, E_TASK, E_UNKNOWN} : CreateElement(e)

(* The scale reference table also holds a row with min above max, a row     *)
(* with an empty max and a row with an unparseable min.                     *)
SpecLookup ==
    /\ InitWith({ SmallData(sr, << OccupationRow(OCC_1) >>) :
                    sr \in ScaleTables \cup
                       { << IM_ROW, <<LV, TXT, <<"7">>, <<"0">>>>, RL_ROW >>,
                         << IM_ROW, <<OI, TXT, <<"1", "5", "0">>, << >>>>, RL_ROW >>,
                         << IM_ROW, <<EX, TXT, <<"x">>, <<"7">>>>, RL_ROW >> } })
    /\ [][NextLookup]_vars

----------------------------------------------------------------------------
(* Properties of the lookups and of the scale definitions (SpecLookup) *)

(* The last call looked up an id its receiver does not hold *)
UnknownLookup ==
    \/ last.op = "get" /\ registry # None /\ last.element_id \notin DOMAIN Get(registry)
    \/ last.op = "get_element" /\ last.element_id \notin DOMAIN occupations[OCC_1].elements
    \/ last.op = "get_scale"
          /\ last.scale_id \notin DOMAIN occupations[OCC_1].elements[last.element_id].scales
    \/ last.op = "create_element" /\ last.element_id \notin DOMAIN Get(schema).elements

(* C22: every lookup of an unknown organization id, element id, scale id or *)
(* element template raises an error; none returns a silent default.         *)
C22_NotFoundSurfaced == UnknownLookup => last.outcome = "KeyError"

(* C26: every ScaleDefinition the loaders produce, from the scale reference *)
(* table and from the per-scale schema files, has min_value <= max_value.   *)
C26_MinNotAboveMax ==
    /\ \A sid \in DOMAIN scale_defs : scale_defs[sid].min_value <= scale_defs[sid].max_value
    /\ \A a \in DOMAIN heap : heap[a].scale_def.min_value <= heap[a].scale_def.max_value

----------------------------------------------------------------------------
(* Population by workers that own disjoint sets of occupations, the slot    *)
(* assignments of populate_occupation_values taken in any order             *)
(* (SpecWorkers)                                                            *)

(* populate_occupation_values(occupations, r) begins: no slot visited yet;  *)
(* owner maps each occupation to the worker that populates it.              *)
StartPopulation(r, owner) ==
    /\ pc = "created"
    /\ run = None
    /\ run' = Some([r |-> r, owner |-> owner, pending |-> Slots(occupations),
                    st |-> [heap |-> heap, total |-> 0, populated |-> 0, missing |-> 0],
                    heap0 |-> heap])
    /\ last' = Call("populate_occupation_values", DOMAIN occupations, << >>, << >>, None,
                    r, "ok")
    /\ UNCHANGED <<user, loaderVars, data, scale_defs, heap, schema, occupations, file_idx,
                   ratings, all_ratings, rows_read, stats, calls, pc>>

(* Worker w runs the loop body for one slot of an occupation it owns. *)
WorkerPopulateSlot(w, key) ==
    /\ run # None
    /\ key \in Get(run).pending
    /\ Get(run).owner[key[1]] = w
    /\ LET st == populate_slot([Get(run).st EXCEPT !.heap = heap], occupations,
                               Get(run).r, key)
       IN /\ heap' = st.heap
          /\ run' = Some([Get(run) EXCEPT !.pending = @ \ {key}, !.st = st])
    /\ last' = Call("populate_slot", { o \in DOMAIN occupations : Get(run).owner[o] = w },
                    key[2], key[3], None, key, "ok")
    /\ UNCHANGED <<user, loaderVars, data, scale_defs, schema, occupations, file_idx,
                   ratings, all_ratings, rows_read, stats, calls, pc>>

NextWorkers ==
    \/ CreateOccupationSchema
    \/ CreateEmptyOccupations
    \/ \E owner \in [{OCC_1, OCC_2} -> {1, 2}],
          r \in { <<OCC_1, E_ABILITY, IM>> :> 300 @@ <<OCC_2, E_ABILITY, IM>> :> 462,
                  <<OCC_1, E_ABILITY, LV>> :> 488 @@ <<OCC_2, E_EDUCATION, RL_1>> :> 4591
                     @@ <<OCC_UNKNOWN, E_ABILITY, IM>> :> 300 } :
          StartPopulation(r, owner)
    \/ \E w \in {1, 2}, key \in Slots(occupations) : WorkerPopulateSlot(w, key)

SpecWorkers ==
    /\ InitWith({ SmallData(<< IM_ROW, RL_ROW >>,
                            << OccupationRow(OCC_1), OccupationRow(OCC_2) >>) })
    /\ [][NextWorkers]_vars

(* The run has visited every slot *)
RunFinished == run # None /\ Get(run).pending = {}

(* The outcome of the sequential populate_occupation_values on the heap the *)
(* run started from.                                                        *)
SequentialRun == populate_occupation_values(Get(run).heap0, occupations, Get(run).r)

(* C23: whatever the order of the slot assignments and whichever disjoint   *)
(* sets of occupations the workers own, the finished run holds the values   *)
(* and coverage counts of the sequential run, and no worker writes a scale  *)
(* of an occupation it does not own.                                        *)
C23_PopulationOrderIndependent ==
    /\ [](RunFinished =>
            /\ \A k \in Slots(occupations) :
                  heap[SlotAddr(occupations, k)].value
                     = SequentialRun.heap[SlotAddr(occupations, k)].value
            /\ Get(run).st.total = SequentialRun.stats.total_possible_scales
            /\ Get(run).st.populated = SequentialRun.stats.populated_scales
            /\ Get(run).st.missing = SequentialRun.stats.missing_scales)
    /\ [][last'.op = "populate_slot" =>
            /\ \A o \in (DOMAIN occupations) \ last'.targets :
                  \A a \in OccupationAddrs(o) : heap'[a] = heap[a]
            /\ \A a \in TemplateAddrs : heap'[a] = heap[a]]_vars

(* Two workers, one occupation each, finished a run that populated a slot   *)
(* of either occupation.                                                    *)
C23_Witness ==
    /\ RunFinished
    /\ Get(run).owner[OCC_1] # Get(run).owner[OCC_2]
    /\ heap[SlotAddr(occupations, <<OCC_1, E_ABILITY, IM>>)].value = Some(300)
    /\ heap[SlotAddr(occupations, <<OCC_2, E_ABILITY, IM>>)].value = Some(462)
    /\ Get(run).st.populated = 2
    /\ Get(run).st.missing = 4

----------------------------------------------------------------------------
(* user_class.py / user_service.py: jobs and attribute updates.  A date     *)
(* string is modelled by a string of the table in get_job_years; capability *)
(* and preference are whole numbers.                                        *)

MaxJobs == 2

(* The attribute templates of the registry: attribute_id ->                 *)
(* mapping_element_id.  A mapped ability, a mapped education attribute, a   *)
(* mapped parent, an attribute mapped to an element no job holds and a      *)
(* custom attribute.                                                        *)
AttributeTemplates ==
    (E_ABILITY :> Some(E_ABILITY)) @@ (E_EDUCATION :> Some(E_EDUCATION))
      @@ (E_ABILITIES :> Some(E_ABILITIES)) @@ (E_UNKNOWN :> Some(E_UNKNOWN))
      @@ (<<"1", ".", "N">> :> None)

(* Job.from_occupation: elements is a deep copy, the copied ElementScale    *)
(* objects being the cells the element's addresses point to.                *)
from_occupation(h, occupation, job_title, start_date, end_date, duration_months) ==
    [occupation_id |-> occupation.occupation_id, job_title |-> job_title,
     start_date |-> start_date, end_date |-> end_date,
     duration_months |-> duration_months,
     elements |-> occupation.elements, cells |-> h]

add_job_Append(u, job) == [u EXCEPT !.jobs = Append(@, job)]

(* User.add_job: self.jobs.insert(0, job) *)
add_job(u, job) == [u EXCEPT !.jobs = << job >> \o @]

(* User.get_current_job: the first job of the list without end date *)
get_current_job(u) ==
    IF \E i \in 1..Len(u.jobs) : u.jobs[i].end_date = None
    THEN Some(u.jobs[CHOOSE i \in 1..Len(u.jobs) :
                        /\ u.jobs[i].end_date = None
                        /\ \A j \in 1..(i - 1) : u.jobs[j].end_date # None])
    ELSE None

(* _get_job_years as the quotient num / den; now is the day datetime.now()  *)
(* falls on.  fromisoformat gives the day number of a date string, or None  *)
(* where it raises ValueError.                                              *)
get_job_years(job, now) ==
    LET fromisoformat(str) == CASE str = "2020-01-01" -> Some(0)
                                [] str = "2021-01-01" -> Some(366)
                                [] OTHER -> None
        falsy(o) == o = None \/ Get(o) = ""
    IN IF job.duration_months # None THEN [num |-> Get(job.duration_months), den |-> 12]
       ELSE IF falsy(job.start_date) THEN [num |-> 1, den |-> 1]
       ELSE IF fromisoformat(Get(job.start_date)) = None THEN [num |-> 1, den |-> 1]
       ELSE IF falsy(job.end_date)
       THEN [num |-> 4 * (now - Get(fromisoformat(Get(job.start_date)))), den |-> 1461]
       ELSE IF fromisoformat(Get(job.end_date)) = None THEN [num |-> 1, den |-> 1]
       ELSE [num |-> 4 * (Get(fromisoformat(Get(job.end_date)))
                            - Get(fromisoformat(Get(job.start_date)))), den |-> 1461]

(* update_attributes_with_element_mapping: the user after it.  templates    *)
(* maps attribute_id to mapping_element_id; int() truncates toward zero.    *)
update_attributes_with_element_mapping(u, job, now, templates) ==
    LET years == get_job_years(job, now)
        int(n, d) == IF n >= 0 THEN n \div d ELSE 0 - ((0 - n) \div d)
        min(a, b) == IF a <= b THEN a ELSE b
        or0(o) == IF o = None THEN 0 ELSE Get(o)
        touched == { attr_id \in DOMAIN templates :
                       /\ templates[attr_id] # None
                       /\ Get(templates[attr_id]) \in DOMAIN job.elements }
        updated(attr_id) ==
            LET experience_score ==
                    calculate_experience_score(job.cells,
                                               job.elements[Get(templates[attr_id])])
                attr == IF attr_id \in DOMAIN u.attributes THEN u.attributes[attr_id]
                        ELSE [capability |-> None, preference |-> None]
            IN [capability |->
                    Some(min(100, or0(attr.capability)
                                    + int(years.num * experience_score,
                                          years.den * Score(1, 1)))),
                preference |->
                    Some(min(100, or0(attr.preference) + int(years.num * 2, years.den)))]
    IN [u EXCEPT !.attributes =
            [a \in (DOMAIN u.attributes) \cup touched |->
                IF a \in touched THEN updated(a) ELSE u.attributes[a]]]

----------------------------------------------------------------------------
(* Jobs added to a user from a populated occupation (SpecUser) *)

(* add_job_experience(user, occupations[o], ..., start_date, end_date,      *)
(* duration_months): the job is created, added, and the mapped leaf         *)
(* attributes are updated.  The job title is the job's serial number.       *)
AddJobExperience(o, inp, now) ==
    /\ pc = "created"
    /\ o \in DOMAIN occupations
    /\ Len(user.jobs) < MaxJobs
    /\ LET job == from_occupation(heap, occupations[o], Len(user.jobs) + 1,
                                  inp.start_date, inp.end_date, inp.duration_months)
           leaf == { a \in DOMAIN AttributeTemplates :
                       ~\E b \in DOMAIN AttributeTemplates : StartsWith(b, a \o <<".">>) }
           mapped == [a \in { x \in leaf : AttributeTemplates[x] # None }
                        |-> AttributeTemplates[a]]
       IN user' = update_attributes_with_element_mapping(add_job(user, job), job, now,
                                                         mapped)
    /\ last' = Call("add_job_experience", {o}, << >>, << >>, None,
                    get_job_years(user'.jobs[1], now), "ok")
    /\ UNCHANGED <<run, loaderVars, data, scale_defs, heap, schema, occupations, file_idx,
                   ratings, all_ratings, rows_read, stats, calls, pc>>

(* user.get_current_job() *)
GetCurrentJob ==
    /\ user.jobs # << >>
    /\ last' = Call("get_current_job", {}, << >>, << >>, None, get_current_job(user), "ok")
    /\ UNCHANGED <<serviceVars, loaderVars, data, scale_defs, heap, schema, occupations,
                   file_idx, ratings, all_ratings, rows_read, stats, calls, pc>>

NextUser ==
    \/ CreateOccupationSchema
    \/ CreateEmptyOccupations
    \/ \E r \in { <<OCC_1, E_ABILITY, IM>> :> 462 @@ <<OCC_1, E_ABILITY, LV>> :> 488
                    @@ <<OCC_1, E_EDUCATION, RL_1>> :> 4591,
                  <<OCC_1, E_ABILITY, IM>> :> 462 @@ <<OCC_1, E_ABILITY, LV>> :> 0 - 700 } :
          calls = 0 /\ user.jobs = << >> /\ PopulateOccupationValues({OCC_1}, r)
    \/ \E now \in {0, 366},
          inp \in [start_date : {None}, end_date : {None, Some("2021-01-01")},
                   duration_months : {None, Some(0 - 12), Some(36), Some(600)}]
                  \cup [start_date : {Some("2020-01-01"), Some("2021-01-01"), Some("soon"),
                                      Some("")},
                        end_date : {None, Some("2020-01-01"), Some("")},
                        duration_months : {None}] :
          AddJobExperience(OCC_1, inp, now)
    \/ GetCurrentJob

SpecUser ==
    /\ InitWith({ SmallData(<< IM_ROW, RL_ROW >>, << OccupationRow(OCC_1) >>) })
    /\ [][NextUser]_vars

----------------------------------------------------------------------------
(* Properties of the user's jobs and attributes (SpecUser) *)

(* The value an unset or set capability or preference counts as *)
Previous(o) == IF o = None THEN 0 ELSE Get(o)

(* The attribute before the step, unset when the user did not hold it *)
AttributeBefore(a) ==
    IF a \in DOMAIN user.attributes THEN user.attributes[a]
    ELSE [capability |-> None, preference |-> None]

JobAdded == Len(user'.jobs) = Len(user.jobs) + 1

(* C24: each update keeps capability and preference at or below 100, adds   *)
(* years * 2, truncated, to the preference of every mapped leaf attribute   *)
(* whose element the job holds, and with a job of non-negative duration     *)
(* lowers neither capability nor preference.                                *)
C24_AttributesAccumulateCapped ==
    [][JobAdded =>
         \A a \in DOMAIN user'.attributes :
            /\ Get(user'.attributes[a].capability) <= 100
            /\ Get(user'.attributes[a].preference) <= 100
            /\ last'.arg.num >= 0 =>
                  /\ Get(user'.attributes[a].preference)
                        = IF Previous(AttributeBefore(a).preference)
                               + ((last'.arg.num * 2) \div last'.arg.den) < 100
                          THEN Previous(AttributeBefore(a).preference)
                                 + ((last'.arg.num * 2) \div last'.arg.den)
                          ELSE 100
                  /\ Get(user'.attributes[a].capability)
                        >= Previous(AttributeBefore(a).capability)
                  /\ Get(user'.attributes[a].preference)
                        >= Previous(AttributeBefore(a).preference)]_vars

(* C25: user.jobs lists the jobs in reverse order of insertion, none lost   *)
(* or duplicated, and get_current_job returns the most recently added job   *)
(* without end date, or null when every job has one.                        *)
C25_JobsMostRecentFirst ==
    /\ \A i \in 1..Len(user.jobs) : user.jobs[i].job_title = Len(user.jobs) - i + 1
    /\ last.op = "get_current_job" =>
          LET open == { i \in 1..Len(user.jobs) : user.jobs[i].end_date = None }
          IN IF open = {} THEN last.arg = None
             ELSE /\ last.arg # None
                  /\ Get(last.arg).end_date = None
                  /\ \E i \in open : Get(last.arg) = user.jobs[i]
                  /\ \A i \in open : user.jobs[i].job_title <= Get(last.arg).job_title

(* The user holds two jobs, the later one ended and the earlier one not,    *)
(* and get_current_job returned the earlier one.                            *)
C25_Witness ==
    /\ last.op = "get_current_job"
    /\ Len(user.jobs) = 2
    /\ user.jobs[1].end_date # None
    /\ user.jobs[2].end_date = None
    /\ last.arg = Some(user.jobs[2])

(* C29: every attribute's capability and preference is null or a number in *)
(* [0, 100].                                                                *)
C29_AttributesInRange ==
    \A a \in DOMAIN user.attributes :
        /\ user.attributes[a].capability # None =>
              (0 <= Get(user.attributes[a].capability)
                 /\ Get(user.attributes[a].capability) <= 100)
        /\ user.attributes[a].preference # None =>
              (0 <= Get(user.attributes[a].preference)
                 /\ Get(user.attributes[a].preference) <= 100)

----------------------------------------------------------------------------
(* Merging of ratings (SpecIngest) *)

(* The key under which the row just parsed is stored *)
ParsedKey ==
    <<Strip(last'.arg[1]), Strip(last'.arg[2]),
      ClaimScaleId(RATING_FILE_CONFIGS[file_idx], last'.arg)>>

(* C27: a key supplied again, by a later valid row of the file or by a      *)
(* later file, raises nothing and replaces the value: the file's map and    *)
(* the merged map hold one entry per key, that of the last valid row of the *)
(* last file supplying it.                                                  *)
C27_LastWriteWins ==
    /\ [][(RowParsed /\ ~ClaimMalformed(RATING_FILE_CONFIGS[file_idx], last'.arg)) =>
            /\ last'.outcome = "ok"
            /\ DOMAIN ratings' = (DOMAIN ratings) \cup {ParsedKey}
            /\ ratings'[ParsedKey]
                  = Get(ParseFloat(last'.arg[ClaimValueColumn(RATING_FILE_CONFIGS[file_idx])
                                             + 1]))
            /\ \A k \in (DOMAIN ratings) \ {ParsedKey} : ratings'[k] = ratings[k]]_vars
    /\ [][last'.op = "parse_rating_file" =>
            /\ last'.outcome = "ok"
            /\ DOMAIN all_ratings' = (DOMAIN all_ratings) \cup (DOMAIN ratings)
            /\ \A k \in DOMAIN ratings : all_ratings'[k] = ratings[k]
            /\ \A k \in (DOMAIN all_ratings) \ (DOMAIN ratings) :
                  all_ratings'[k] = all_ratings[k]]_vars

(* A valid row of a later file was stored under a key that the merged map   *)
(* of the earlier files holds with another value.                           *)
C27_Witness ==
    /\ last.op = "parse_rating_row"
    /\ \E k \in (DOMAIN ratings) \cap (DOMAIN all_ratings) : ratings[k] # all_ratings[k]

----------------------------------------------------------------------------
(* Failing upserts and the shape of the occupations (Spec) *)

(* C28: when upsert_scale_value raises the semantics-violation error the    *)
(* scale holds the rejected value; when it raises KeyError no scale value   *)
(* has changed.                                                             *)
C28_UpsertAssignsBeforeValidating ==
    /\ []((last.op = "upsert_scale_value" /\ last.outcome = "ValueError") =>
            \A o \in last.targets :
               heap[SlotAddr(occupations, <<o, last.element_id, last.scale_id>>)].value
                  = last.value)
    /\ [][(last'.op = "upsert_scale_value" /\ calls' = calls + 1
             /\ last'.outcome = "KeyError") => heap' = heap]_vars

(* A second upsert put 4.62 on the ordinal IM scale of the ability and      *)
(* raised ValueError, and the scale holds 4.62.                             *)
C28_Witness ==
    /\ last.op = "upsert_scale_value"
    /\ last.outcome = "ValueError"
    /\ calls = 2
    /\ last.element_id = E_ABILITY
    /\ last.scale_id = IM
    /\ last.value = Some(462)
    /\ heap[SlotAddr(occupations, <<OCC_1, E_ABILITY, IM>>)].value = Some(462)

(* C30: every occupation has exactly the schema's element ids and each      *)
(* element exactly its template's scale ids, through every population and   *)
(* every upsert_scale_value call, failing ones included; a rating whose key *)
(* matches no slot is ignored without error.                                *)
C30_OccupationsKeepSchemaShape ==
    /\ pc = "created" =>
          \A o \in DOMAIN occupations :
             /\ DOMAIN occupations[o].elements = DOMAIN Get(schema).elements
             /\ \A e \in DOMAIN occupations[o].elements :
                   DOMAIN occupations[o].elements[e].scales
                      = DOMAIN Get(schema).elements[e].scales
    /\ last.op = "populate_occupation_values" =>
          /\ last.outcome = "ok"
          /\ Get(stats).total_possible_scales
                = Cardinality({ k \in Slots(occupations) : k[1] \in last.targets })

(* The second call was a population of both occupations from a rating map  *)
(* that also names an unknown occupation, and the LV scale of the ability   *)
(* of OCC_1 holds 150.                                                      *)
C30_Witness ==
    /\ calls = 2
    /\ last.op = "populate_occupation_values"
    /\ last.targets = {OCC_1, OCC_2}
    /\ <<OCC_UNKNOWN, E_ABILITY, IM>> \in DOMAIN last.arg
    /\ heap[SlotAddr(occupations, <<OCC_1, E_ABILITY, LV>>)].value = Some(15000)

====






